---- MODULE Spec2Model ----
(***************************************************************************)
(* A model of the authenticated request pipeline of the RESTv2 client:     *)
(* nonce issuance, request signing, the three request primitives, the      *)
(* error classifier, the response transformer and the completion channel   *)
(* (callback or promise).                                                  *)
(*                                                                         *)
(* JavaScript values are tagged tuples, text is a sequence of tokens, and  *)
(* JSON.stringify / JSON.parse work on that text.                          *)
(***************************************************************************)
EXTENDS Integers, Sequences, FiniteSets, TLC

\* ------------------------------------------------------------------ bounds

\* Total number of calls the caller issues in one behaviour.
MaxCalls == 2
\* Largest wall-clock reading (in nonce units) the nonce source can observe.
MaxNow == 2
\* Number of calls that can be in flight at once under a concurrent caller.
MaxInflight == 2

\* --------------------------------------------------------------- JS values

Undef == <<"undefined">>
Null == <<"null">>
Num(n) == <<"num", n>>
\* A string value holds its text.
Str(t) == <<"str", t>>
Bool(b) == <<"bool", b>>
Arr(elems) == <<"arr", elems>>
\* An object is the sequence of its own enumerable <<key, value>> entries, in
\* insertion order.
Obj(entries) == <<"obj", entries>>

Tag(v) == v[1]
IsArray(v) == Tag(v) = "arr"
IsNil(v) == Tag(v) \in {"undefined", "null"}
\* JavaScript truthiness: `!v` is true of undefined, null, NaN, 0, '' and false.
Truthy(v) ==
    CASE Tag(v) \in {"undefined", "null", "nan"} -> FALSE
      [] Tag(v) = "num" -> v[2] # 0
      [] Tag(v) = "str" -> v[2] # <<>>
      [] Tag(v) = "bool" -> v[2]
      [] OTHER -> TRUE

\* -------------------------------------------------------------------- text

RECURSIVE Digits(_)
\* The decimal digits of a natural number, as text.
Digits(n) ==
    IF n < 10 THEN <<ToString(n)>> ELSE Digits(n \div 10) \o <<ToString(n % 10)>>

\* String(n) of a number: the template literal `${n}` and a header value.
NumText(n) == IF n < 0 THEN <<"-">> \o Digits(-n) ELSE Digits(n)

RECURSIVE Flatten(_)
\* The concatenation of a sequence of texts.
Flatten(texts) ==
    IF texts = <<>> THEN <<>> ELSE Head(texts) \o Flatten(Tail(texts))

RECURSIVE Join(_, _)
\* Array.prototype.join on texts.
Join(texts, sep) ==
    IF texts = <<>> THEN <<>>
    ELSE IF Len(texts) = 1 THEN texts[1]
    ELSE texts[1] \o sep \o Join(Tail(texts), sep)

\* -------------------------------------------------------------------- JSON

\* Values JSON.stringify leaves out of an object and writes as null in an array.
Unserializable(v) == Tag(v) = "undefined"

RECURSIVE Stringify(_)
\* JSON.stringify without indentation, for a value that serializes to text.
Stringify(v) ==
    CASE Tag(v) = "null" -> <<"null">>
      [] Tag(v) = "nan" -> <<"null">>
      [] Tag(v) = "undefined" -> <<"null">>
      [] Tag(v) = "num" -> NumText(v[2])
      [] Tag(v) = "bool" -> <<IF v[2] THEN "true" ELSE "false">>
      [] Tag(v) = "str" -> <<"\"">> \o v[2] \o <<"\"">>
      [] Tag(v) = "arr" ->
            <<"[">> \o Join([i \in 1..Len(v[2]) |-> Stringify(v[2][i])], <<",">>) \o <<"]">>
      [] Tag(v) = "obj" ->
            LET kept == SelectSeq(v[2], LAMBDA e : ~Unserializable(e[2]))
            IN <<"{">>
               \o Join([i \in 1..Len(kept) |->
                          <<"\"", kept[i][1], "\"", ":">> \o Stringify(kept[i][2])], <<",">>)
               \o <<"}">>

\* ------------------------------------------------------ payloads and bodies

\* Request payloads the callers pass. The second is the payload of the
\* "excludes nullish" test; the others put a nil value first, alone, and nested.
Payloads ==
    { Obj(<<>>),
      Obj(<< <<"a", Num(1)>>, <<"b", Str(<<>>)>>, <<"c", Null>>, <<"d", Undef>> >>),
      Obj(<< <<"c", Null>>, <<"a", Num(0)>> >>),
      Obj(<< <<"d", Undef>> >>),
      Obj(<< <<"a", Obj(<< <<"c", Null>> >>)>>, <<"b", Bool(FALSE)>> >>) }

\* The values a response body can hold.
ErrorTriple == Arr(<<Str(<<"error">>), Num(10010), Str(<<"ERR_RATE_LIMIT">>)>>)
NonceTriple == Arr(<<Str(<<"error">>), Num(10114), Str(<<"nonce: small">>)>>)
ErrorObject == Obj(<< <<"error", Str(<<"internal">>)>> >>)
ShortArray == Arr(<<Str(<<"error">>), Num(10010)>>)
Rows2D == Arr(<<Arr(<<Num(1), Num(2)>>), Arr(<<Num(3), Num(4)>>)>>)
FlatRow == Arr(<<Str(<<"ente">>), Str(<<"gans">>), Str(<<"scholle">>)>>)
BodyValues ==
    {ErrorTriple, NonceTriple, ErrorObject, ShortArray, Rows2D, FlatRow,
     Arr(<<>>), Num(0), Null}

\* Bodies that are no JSON text.
NotJSON == {<<"Bad Gateway">>, <<>>}

\* The objects a request body can hold: any selection of the fields of a
\* payload that JSON can write.
Selection(obj, keys) ==
    Obj(SelectSeq(obj[2], LAMBDA e : e[1] \in keys /\ ~Unserializable(e[2])))
BodyObjects ==
    {Selection(x[1], x[2]) : x \in Payloads \X SUBSET {"a", "b", "c", "d"}}

\* What a body of the v1 API holds: an object with a string message (one of
\* them the nonce error in three spellings, one without it, one empty), with a
\* message that is no string, without a message, or no object.
V1Bodies ==
    {Obj(<< <<"message", Str(<<"Bad request">>)>> >>),
     Obj(<< <<"message", Str(<<"Nonce is too small">>)>> >>),
     Obj(<< <<"message", Str(<<"nonce is too small">>)>> >>),
     Obj(<< <<"message", Str(<<"Error: ", "NONCE IS TOO SMALL", ".">>)>> >>),
     Obj(<< <<"message", Str(<<"Nonce too small">>)>> >>),
     Obj(<< <<"message", Str(<<>>)>> >>),
     Obj(<< <<"message", Num(5)>> >>),
     Obj(<< <<"mid", Num(2)>> >>),
     FlatRow, Num(0), Null}

\* What the API answers closePosition's two requests with: lists of position
\* rows (symbol, status and amount lead the row, the id is its twelfth
\* element), and the notification that carries the submitted order.
PositionBodies ==
    LET Row(symbol, status, amount, id) ==
            Arr(<<Str(<<symbol>>), Str(<<status>>), Num(amount), Null, Null, Null, Null,
                  Null, Null, Null, Null, Num(id)>>)
    IN {Arr(<<>>),
        Arr(<<Row("tBTCUSD", "ACTIVE", 2, 1)>>),
        Arr(<<Row("tBTCUSD", "ACTIVE", 2, 1), Row("tETHUSD", "CLOSED", 3, 2)>>),
        Arr(<<Row("tETHUSD", "CLOSED", 3, 2), Row("tETHUSD", "ACTIVE", -1, 2)>>)}
OrderNotification ==
    Arr(<<Num(1), Str(<<"on-req">>), Null, Null, Arr(<<FlatRow>>), Null,
          Str(<<"SUCCESS">>), Str(<<"ok">>)>>)

\* The JSON values the model's texts can denote: what a response body holds and
\* what a request body holds.
JSONValues ==
    BodyValues \cup BodyObjects \cup V1Bodies \cup PositionBodies \cup {OrderNotification}

\* The value each JSON text denotes.
JSONValueOf ==
    [text \in {Stringify(v) : v \in JSONValues} |->
        CHOOSE v \in JSONValues : Stringify(v) = text]

\* JSON.parse: <<"ok", value>> for the text of a JSON value, <<"throw">> (a
\* SyntaxError) for any other text.
JSONParse(text) ==
    LET Denoted(valueOf) ==
            IF text \in DOMAIN valueOf THEN <<"ok", valueOf[text]>> ELSE <<"throw">>
    IN Denoted(JSONValueOf)

\* ------------------------------------------------------------------ errors

HelpLink ==
    <<" see https://github.com/bitfinexcom/bitfinex-api-node/blob/master/README.md#nonce-too-small for help">>

\* new Error(message), with the properties the client may set still undefined.
\* An error is the tagged record of its properties.
NewError(name, message) ==
    <<"error", [name |-> name, message |-> message, status |-> Undef,
                statustext |-> Undef, code |-> Undef, response |-> Undef,
                error |-> Undef]>>

\* An _apiError that keeps the raw body and never parses it.
ApiErrorUnparsed(resp, rawBody) ==
    [NewError("Error", <<"HTTP code ">> \o NumText(resp.status) \o <<" ">>
                        \o resp.statusText)
        EXCEPT ![2].status = Num(resp.status),
               ![2].statustext = Str(resp.statusText),
               ![2].response = Str(rawBody)]

\* RESTv2._apiError
ApiError(resp, rawBody) ==
    LET Classified(err, parsed) ==
            IF parsed[1] = "ok"
            THEN IF IsArray(parsed[2]) /\ Len(parsed[2][2]) >= 3
                 THEN [err EXCEPT ![2].code = parsed[2][2][2],
                                  ![2].response = parsed[2][2][3]]
                 ELSE [err EXCEPT ![2].response = parsed[2]]
            ELSE [err EXCEPT ![2].response = Str(rawBody)]
    IN Classified([NewError("Error", <<"HTTP code ">> \o NumText(resp.status)
                                      \o <<" ">> \o resp.statusText)
                     EXCEPT ![2].status = Num(resp.status),
                            ![2].statustext = Str(resp.statusText)],
                  JSONParse(rawBody))

\* An omitNil that drops every falsy value.
OmitFalsy(obj) == Obj(SelectSeq(obj[2], LAMBDA e : Truthy(e[2])))

\* omitNil
OmitNil(obj) == Obj(SelectSeq(obj[2], LAMBDA e : ~IsNil(e[2])))

\* ------------------------------------------------------------ transformers

\* A transformer is null ("none"), a model class ("class"), a plain function
\* ("fn") or a plain function that throws ("fnThrows").
Transformers == {"none", "class", "fn", "fnThrows"}

\* bfx-api-node-util isClass
IsClass(transformer) == transformer = "class"

\* new ModelClass(row, this)
Model(row) == <<"model", row>>
\* The value a plain transformer function maps the data to.
Mapped(data) == <<"mapped", data>>
TransformError == NewError("Error", <<"transform failed">>)

\* A _classTransform that makes a single model of rows too.
ClassTransformWhole(data, transformFlag) ==
    IF ~Truthy(data) \/ (IsArray(data) /\ Len(data[2]) = 0)
    THEN [out |-> <<"return", Arr(<<>>)>>, made |-> 0]
    ELSE IF ~transformFlag
    THEN [out |-> <<"return", data>>, made |-> 0]
    ELSE [out |-> <<"return", Model(data)>>, made |-> 1]

\* A _classTransform that does not test for empty or falsy data.
ClassTransformNoEmptyTest(data, transformFlag) ==
    IF ~transformFlag
    THEN [out |-> <<"return", data>>, made |-> 0]
    ELSE IF IsArray(data) /\ Len(data[2]) > 0 /\ IsArray(data[2][1])
    THEN [out |-> <<"return", Arr([i \in 1..Len(data[2]) |-> Model(data[2][i])])>>,
          made |-> Len(data[2])]
    ELSE [out |-> <<"return", Model(data)>>, made |-> 1]

\* A _classTransform that does not look at the client's flag.
ClassTransformIgnoresFlag(data, transformFlag) ==
    IF ~Truthy(data) \/ (IsArray(data) /\ Len(data[2]) = 0)
    THEN [out |-> <<"return", Arr(<<>>)>>, made |-> 0]
    ELSE IF IsArray(data) /\ IsArray(data[2][1])
    THEN [out |-> <<"return", Arr([i \in 1..Len(data[2]) |-> Model(data[2][i])])>>,
          made |-> Len(data[2])]
    ELSE [out |-> <<"return", Model(data)>>, made |-> 1]

\* RESTv2._classTransform: the value returned and the number of instances made.
ClassTransform(data, transformFlag) ==
    IF ~Truthy(data) \/ (IsArray(data) /\ Len(data[2]) = 0)
    THEN [out |-> <<"return", Arr(<<>>)>>, made |-> 0]
    ELSE IF ~transformFlag
    THEN [out |-> <<"return", data>>, made |-> 0]
    ELSE IF IsArray(data) /\ IsArray(data[2][1])
    THEN [out |-> <<"return", Arr([i \in 1..Len(data[2]) |-> Model(data[2][i])])>>,
          made |-> Len(data[2])]
    ELSE [out |-> <<"return", Model(data)>>, made |-> 1]

\* RESTv2._doTransform: what it returns or throws, and how many times the
\* transformer ran.
DoTransform(data, transformer, transformFlag) ==
    IF IsClass(transformer)
    THEN ClassTransform(data, transformFlag)
    ELSE IF transformer \in {"fn", "fnThrows"}
    THEN [out |-> IF transformer = "fn" THEN <<"return", Mapped(data)>>
                  ELSE <<"throw", TransformError>>,
          made |-> 1]
    ELSE [out |-> <<"return", data>>, made |-> 0]

\* -------------------------------------------------------------- completion

\* A completion handler is absent ("none"), a function ("fn"), a function that
\* throws whenever it is called ("fnThrows"), or a value that is no function
\* ("notFn").
Callbacks == {"none", "fn", "fnThrows", "notFn"}
CallbackError == NewError("Error", <<"callback failed">>)

NonceTooSmall == 10114

\* The message enrichment of RESTv2._cb.
Enrich(err) ==
    IF /\ Truthy(err[2].error)
       /\ IsArray(err[2].error)
       /\ Len(err[2].error[2]) >= 2
       /\ err[2].error[2][2] = Num(NonceTooSmall)
    THEN [err EXCEPT ![2].message = @ \o HelpLink]
    ELSE err

\* RESTv2._cb: the callback invocations so far extended by this one, and what
\* _cb returns or throws. A promise is <<"promise", state, value>>.
Cb(err, res, cb, log) ==
    LET Called(isCbFunc, ran, e) ==
            IF Truthy(err)
            THEN IF isCbFunc
                 THEN [log |-> Append(log, <<e, Undef>>), ret |-> ran]
                 ELSE [log |-> log, ret |-> <<"return", <<"promise", "rejected", e>>>>]
            ELSE IF isCbFunc
                 THEN [log |-> Append(log, <<Null, res>>), ret |-> ran]
                 ELSE [log |-> log, ret |-> <<"return", <<"promise", "resolved", res>>>>]
    IN Called(cb \in {"fn", "fnThrows"},
              IF cb = "fnThrows" THEN <<"throw", CallbackError>> ELSE <<"return", Undef>>,
              IF Truthy(err) THEN Enrich(err) ELSE err)

\* A _response that delivers the data as it is when the transformer throws.
ResponseFallsBack(data, transformer, cb, transformFlag, log) ==
    LET Caught(tried, made) ==
            IF tried.ret[1] = "throw"
            THEN Cb(tried.ret[2], Null, cb, tried.log) @@ [made |-> made]
            ELSE tried @@ [made |-> made]
        Tried(tr) ==
            Caught(Cb(Null, IF tr.out[1] = "return" THEN tr.out[2] ELSE data, cb, log),
                   tr.made)
    IN Tried(IF transformFlag
             THEN DoTransform(data, transformer, transformFlag)
             ELSE [out |-> <<"return", data>>, made |-> 0])

\* A _response that transforms whatever the client's flag says.
ResponseAlwaysTransforms(data, transformer, cb, transformFlag, log) ==
    LET Caught(tried, made) ==
            IF tried.ret[1] = "throw"
            THEN Cb(tried.ret[2], Null, cb, tried.log) @@ [made |-> made]
            ELSE tried @@ [made |-> made]
        Tried(tr) ==
            Caught(IF tr.out[1] = "return"
                   THEN Cb(Null, tr.out[2], cb, log)
                   ELSE [log |-> log, ret |-> tr.out],
                   tr.made)
    IN Tried(DoTransform(data, transformer, TRUE))

\* RESTv2._response
Response(data, transformer, cb, transformFlag, log) ==
    LET \* catch (e) { return this._cb(e, null, cb) }
        Caught(tried, made) ==
            IF tried.ret[1] = "throw"
            THEN Cb(tried.ret[2], Null, cb, tried.log) @@ [made |-> made]
            ELSE tried @@ [made |-> made]
        \* try { ...; return this._cb(null, res, cb) }
        Tried(tr) ==
            Caught(IF tr.out[1] = "return"
                   THEN Cb(Null, tr.out[2], cb, log)
                   ELSE [log |-> log, ret |-> tr.out],
                   tr.made)
    IN Tried(IF transformFlag
             THEN DoTransform(data, transformer, transformFlag)
             ELSE [out |-> <<"return", data>>, made |-> 0])

\* A _request that hands a body that is no JSON on as text.
RequestBodyLenient(thrown, resp, transformer, cb, transformFlag) ==
    LET Caught(tried) ==
            IF tried.ret[1] = "throw"
            THEN Cb(tried.ret[2], Null, cb, tried.log) @@ [made |-> tried.made]
            ELSE tried
        Tried(parsed) ==
            Caught(IF Truthy(thrown)
                   THEN [log |-> <<>>, ret |-> <<"throw", thrown>>, made |-> 0]
                   ELSE IF ~resp.ok
                   THEN [log |-> <<>>, ret |-> <<"throw", ApiError(resp, resp.raw)>>,
                         made |-> 0]
                   ELSE IF parsed[1] = "throw"
                   THEN Response(Str(resp.raw), transformer, cb, transformFlag, <<>>)
                   ELSE Response(parsed[2], transformer, cb, transformFlag, <<>>))
    IN Tried(JSONParse(resp.raw))

\* The body of RESTv2._request from the point where the response text is
\* read: `thrown` is what fetch or text() rejected with, or Null.
RequestBody(thrown, resp, transformer, cb, transformFlag) ==
    LET \* catch (err) { return this._cb(err, null, cb) }
        Caught(tried) ==
            IF tried.ret[1] = "throw"
            THEN Cb(tried.ret[2], Null, cb, tried.log) @@ [made |-> tried.made]
            ELSE tried
        Tried(parsed) ==
            Caught(IF Truthy(thrown)
                   THEN [log |-> <<>>, ret |-> <<"throw", thrown>>, made |-> 0]
                   ELSE IF ~resp.ok
                   THEN [log |-> <<>>, ret |-> <<"throw", ApiError(resp, resp.raw)>>,
                         made |-> 0]
                   ELSE IF parsed[1] = "throw"
                   THEN [log |-> <<>>,
                         ret |-> <<"throw",
                                   NewError("SyntaxError", <<"Unexpected token">>)>>,
                         made |-> 0]
                   ELSE Response(parsed[2], transformer, cb, transformFlag, <<>>))
    IN Tried(JSONParse(resp.raw))

\* The promise an async function returns, from what its body returned or threw.
Settle(ret) ==
    IF ret[1] = "throw" THEN <<"promise", "rejected", ret[2]>>
    ELSE IF Tag(ret[2]) = "promise" THEN ret[2]
    ELSE <<"promise", "resolved", ret[2]>>

\* ----------------------------------------------------------- currency merge

\* Property access on an object whose keys are texts: obj[key], which is
\* undefined for a key the object does not have.
HasProp(obj, key) == \E i \in DOMAIN obj[2] : obj[2][i][1] = key
GetProp(obj, key) ==
    IF HasProp(obj, key)
    THEN obj[2][CHOOSE i \in DOMAIN obj[2] : obj[2][i][1] = key][2]
    ELSE Undef
\* obj[key] = value: a key the object has keeps its place, a new key goes last.
SetProp(obj, key, value) ==
    IF HasProp(obj, key)
    THEN Obj([i \in DOMAIN obj[2] |->
                IF obj[2][i][1] = key THEN <<key, value>> ELSE obj[2][i]])
    ELSE Obj(Append(obj[2], <<key, value>>))
\* x || y
OrElse(x, y) == IF Truthy(x) THEN x ELSE y

RECURSIVE TransformArrToObj(_)
\* transformArrToObj of _genCurrencyList, on the elements of the array: a
\* scalar maps to itself, a pair maps its first element to its second, a
\* shorter array is skipped.
TransformArrToObj(arr) ==
    IF arr = <<>> THEN Obj(<<>>)
    ELSE LET Put(obj, c) ==
                 IF ~IsArray(c) THEN SetProp(obj, c[2], c)
                 ELSE IF Len(c[2]) > 1 THEN SetProp(obj, c[2][1][2], c[2][2])
                 ELSE obj
         IN Put(TransformArrToObj(SubSeq(arr, 1, Len(arr) - 1)), arr[Len(arr)])

RECURSIVE SpreadKeepsFirst(_, _)
\* Spread in which a key the target has keeps the target's value.
SpreadKeepsFirst(target, entries) ==
    IF entries = <<>> THEN target
    ELSE SpreadKeepsFirst(IF HasProp(target, Head(entries)[1]) THEN target
                          ELSE SetProp(target, Head(entries)[1], Head(entries)[2]),
                          Tail(entries))

RECURSIVE Spread(_, _)
\* { ...target, ...source }, on the entries of source.
Spread(target, entries) ==
    IF entries = <<>> THEN target
    ELSE Spread(SetProp(target, Head(entries)[1], Head(entries)[2]), Tail(entries))

\* AssignExplorers without the inheritance.
AssignExplorersNone(explorer, pool, i) == explorer

RECURSIVE AssignExplorers(_, _, _)
\* The forEach over Object.keys(pool) of _genCurrencyList, from the i-th key
\* on: it writes into `explorer` as it goes.
AssignExplorers(explorer, pool, i) ==
    IF i > Len(pool[2]) THEN explorer
    ELSE LET Step(key, poolKey) ==
                 IF ~Truthy(GetProp(explorer, key)) /\ Truthy(GetProp(explorer, poolKey))
                 THEN SetProp(explorer, key, GetProp(explorer, poolKey))
                 ELSE explorer
         IN AssignExplorers(Step(pool[2][i][1], pool[2][i][2][2]), pool, i + 1)

\* _genCurrencyList that merges the first six elements of a longer array.
GenCurrencyListAtLeastSix(data) ==
    IF ~IsArray(data) \/ Len(data[2]) < 6 THEN data
    ELSE LET Merge(allCurrObj, mapedCurrSym, pool, explorer, walletFx) ==
                 Arr([i \in DOMAIN allCurrObj[2] |->
                        Arr(<< Str(allCurrObj[2][i][1]),
                               allCurrObj[2][i][2],
                               OrElse(GetProp(pool, allCurrObj[2][i][1]), Null),
                               OrElse(GetProp(explorer, allCurrObj[2][i][1]), Arr(<<>>)),
                               OrElse(GetProp(mapedCurrSym, allCurrObj[2][i][1]),
                                      Str(allCurrObj[2][i][1])),
                               OrElse(GetProp(walletFx, allCurrObj[2][i][1]), Arr(<<>>)) >>)])
             Parts(listedCurr, mapedCurrSym, mapedCurrLabel, pool, explorer, walletFx) ==
                 Merge(Spread(Spread(listedCurr, mapedCurrSym[2]), mapedCurrLabel[2]),
                       mapedCurrSym, pool, AssignExplorers(explorer, pool, 1), walletFx)
         IN Parts(TransformArrToObj(data[2][1][2]), TransformArrToObj(data[2][2][2]),
                  TransformArrToObj(data[2][3][2]), TransformArrToObj(data[2][4][2]),
                  TransformArrToObj(data[2][5][2]), TransformArrToObj(data[2][6][2]))

\* RESTv2._genCurrencyList
GenCurrencyList(data) ==
    IF ~IsArray(data) \/ Len(data[2]) # 6 THEN data
    ELSE LET Merge(allCurrObj, mapedCurrSym, pool, explorer, walletFx) ==
                 Arr([i \in DOMAIN allCurrObj[2] |->
                        Arr(<< Str(allCurrObj[2][i][1]),
                               allCurrObj[2][i][2],
                               OrElse(GetProp(pool, allCurrObj[2][i][1]), Null),
                               OrElse(GetProp(explorer, allCurrObj[2][i][1]), Arr(<<>>)),
                               OrElse(GetProp(mapedCurrSym, allCurrObj[2][i][1]),
                                      Str(allCurrObj[2][i][1])),
                               OrElse(GetProp(walletFx, allCurrObj[2][i][1]), Arr(<<>>)) >>)])
             Parts(listedCurr, mapedCurrSym, mapedCurrLabel, pool, explorer, walletFx) ==
                 Merge(Spread(Spread(listedCurr, mapedCurrSym[2]), mapedCurrLabel[2]),
                       mapedCurrSym, pool, AssignExplorers(explorer, pool, 1), walletFx)
         IN Parts(TransformArrToObj(data[2][1][2]), TransformArrToObj(data[2][2][2]),
                  TransformArrToObj(data[2][3][2]), TransformArrToObj(data[2][4][2]),
                  TransformArrToObj(data[2][5][2]), TransformArrToObj(data[2][6][2]))

\* ------------------------------------------------------------------ client

BASE_TIMEOUT == 15000
API_URL == <<"https://api.bitfinex.com">>

\* A number that is no integer (3/2).
Fraction == <<"fraction", 3, 2>>
\* Number.isInteger
IsInteger(v) == Tag(v) = "num"

\* RESTv2._checkOpts: TRUE when it throws.
CheckOptsThrows(opts) == ~IsNil(opts.timeout) /\ ~IsInteger(opts.timeout)

\* The RESTv2 constructor: the client's fields, or the error thrown.
Construct(opts) ==
    IF CheckOptsThrows(opts)
    THEN <<"throw", NewError("Error", <<"ERR_TIMEOUT_DATA_TYPE_ERROR">>)>>
    ELSE <<"client",
           [url |-> API_URL,
            apiKey |-> opts.apiKey,
            apiSecret |-> opts.apiSecret,
            authToken |-> opts.authToken,
            transform |-> opts.transform,
            timeout |-> IF IsInteger(opts.timeout) THEN opts.timeout[2]
                        ELSE BASE_TIMEOUT]>>

\* ------------------------------------------------------- nonce and signing

\* bfx-api-node-util nonce: a time-based counter with a tie-break, so that two
\* readings of the same clock tick (or of a clock set back) still increase.
NonceNext(last, now) == IF last < now THEN now ELSE last + 1

\* bfx-api-node-util genAuthSig: the HMAC-SHA384 hex digest of the payload under
\* the secret, as the pair it is a function of.
GenAuthSig(secret, payload) == <<"hmac-sha384-hex", secret, payload>>

\* The number a nonce header's text writes.
HeaderNonce(text) == CHOOSE n \in 0..(MaxNow + MaxCalls) : NumText(n) = text

API_PREFIX == <<"/api/v2">>

\* A signed string with the nonce ahead of the path.
SigPayloadNonceFirst(path, n, sanitizedPayload) ==
    API_PREFIX \o NumText(n) \o path \o Stringify(sanitizedPayload)

\* The signed string of RESTv2._makeAuthRequest.
SigPayload(path, n, sanitizedPayload) ==
    API_PREFIX \o path \o NumText(n) \o Stringify(sanitizedPayload)

\* A guard that accepts a client with an API key and no secret.
CredentialsMissingKeyOnly(c) == c.apiKey = "" /\ c.authToken = ""

\* The guard of RESTv2._makeAuthRequest.
CredentialsMissing(c) == (c.apiKey = "" \/ c.apiSecret = "") /\ c.authToken = ""

\* Auth headers that prefer the key and the secret to the token.
AuthHeadersKeyFirst(c, path, n, sanitizedPayload) ==
    IF c.apiKey # "" /\ c.apiSecret # ""
    THEN ("bfx-apikey" :> c.apiKey)
         @@ ("bfx-signature" :> GenAuthSig(c.apiSecret, SigPayload(path, n, sanitizedPayload)))
    ELSE "bfx-token" :> c.authToken

\* The `auth` headers of RESTv2._makeAuthRequest.
AuthHeaders(c, path, n, sanitizedPayload) ==
    IF c.authToken # ""
    THEN "bfx-token" :> c.authToken
    ELSE ("bfx-apikey" :> c.apiKey)
         @@ ("bfx-signature" :> GenAuthSig(c.apiSecret, SigPayload(path, n, sanitizedPayload)))

\* AbortSignal.timeout(ms): the signal's delay, or the RangeError it throws for
\* a delay that is no unsigned integer.
AbortSignalTimeout(ms) ==
    IF ms < 0 THEN <<"throw", NewError("RangeError", <<"ERR_OUT_OF_RANGE">>)>>
    ELSE <<"return", ms>>

RequestUrl(c, path) == c.url \o <<"/v2">> \o path

\* A request whose nonce header is not the nonce drawn for this call (the
\* first one drawn is sent again).
AuthReqOptsNonceReused(c, path, n, sanitizedPayload, signal) ==
    [method |-> "POST",
     signal |-> signal,
     headers |-> ("content-type" :> <<"application/json">>)
                 @@ ("bfx-nonce" :> NumText(1))
                 @@ AuthHeaders(c, path, 1, sanitizedPayload),
     body |-> Stringify(sanitizedPayload)]

\* reqOpts of RESTv2._makeAuthRequest, given the signal.
AuthReqOpts(c, path, n, sanitizedPayload, signal) ==
    [method |-> "POST",
     signal |-> signal,
     headers |-> ("content-type" :> <<"application/json">>)
                 @@ ("bfx-nonce" :> NumText(n))
                 @@ AuthHeaders(c, path, n, sanitizedPayload),
     body |-> Stringify(sanitizedPayload)]

\* A public request that carries no signal.
PublicReqOptsNoSignal(signal) == [method |-> "GET"]

\* reqOpts of RESTv2._makePublicRequest.
PublicReqOpts(signal) == [method |-> "GET", signal |-> signal]

\* A public POST that carries a nonce header, as an authenticated one does.
PublicPostReqOptsWithNonce(sanitizedPayload, signal) ==
    [method |-> "POST",
     signal |-> signal,
     headers |-> ("content-type" :> <<"application/json">>) @@ ("bfx-nonce" :> NumText(0)),
     body |-> Stringify(sanitizedPayload)]

\* reqOpts of RESTv2._makePublicPostRequest.
PublicPostReqOpts(sanitizedPayload, signal) ==
    [method |-> "POST",
     signal |-> signal,
     headers |-> ("content-type" :> <<"application/json">>),
     body |-> Stringify(sanitizedPayload)]

\* ------------------------------------------------------------------- state

VARIABLES
    env,        \* what the caller exercises: "request", "response" or "concurrent"
    client,     \* the constructed client, or the error its constructor threw
    calls,      \* the calls in progress, by slot
    last,       \* the nonce source's last value
    sent,       \* the nonce headers of the authenticated requests, in order sent
    issued,     \* how many calls the caller has made
    received    \* the nonces of the key-signed requests, in order of arrival at
                \* the server

vars == <<env, client, calls, last, sent, issued, received>>

Slots == 1..MaxInflight

Pending == <<"promise", "pending", Undef>>

\* A slot with no call in it.
IdleCall ==
    [pc |-> "idle", kind |-> "none", path |-> <<>>, payload |-> Undef,
     cb |-> "none", transformer |-> "none", req |-> <<"none">>,
     resp |-> <<"none">>, timer |-> -1, log |-> <<>>, promise |-> Pending,
     fetches |-> 0, made |-> 0, ret |-> <<"none">>, params |-> Undef]

\* ------------------------------------------------------------- environment

\* What the transport resolves with: Response.ok is derived from the status.
HttpResponse(status, statusText, contentType, raw) ==
    [status |-> status, statusText |-> statusText, ok |-> status \in 200..299,
     contentType |-> contentType, raw |-> raw]

SuccessBodies ==
    {Stringify(FlatRow), Stringify(Rows2D), Stringify(Arr(<<>>)), Stringify(Num(0)),
     Stringify(Null)} \cup NotJSON
FailureBodies == {Stringify(v) : v \in BodyValues} \cup NotJSON

AllResponses ==
    {HttpResponse(200, <<"OK">>, ct, raw) :
        ct \in {"application/json", "text/plain"}, raw \in SuccessBodies}
    \cup {HttpResponse(400, <<"Bad Request">>, "application/json", raw) :
             raw \in FailureBodies}
    \cup {HttpResponse(502, <<>>, "text/html", raw) : raw \in FailureBodies}

FewResponses ==
    {HttpResponse(200, <<"OK">>, "text/plain", Stringify(FlatRow)),
     HttpResponse(400, <<"Bad Request">>, "application/json", Stringify(ErrorTriple))}

Paths == {<<"/auth/r/orders">>, <<"/platform/status">>}

\* The inputs the caller draws from, by what it exercises.
ResponsesOf(e) == IF e = "response" THEN AllResponses ELSE FewResponses
PathsOf(e) == IF e = "request" THEN Paths ELSE {<<"/auth/r/orders">>}
PayloadsOf(e) == IF e = "request" THEN Payloads ELSE {Obj(<<>>)}
CallbacksOf(e) == IF e = "response" THEN Callbacks \ {"notFn"} ELSE {"none", "fn"}
TransformersOf(e) == IF e = "response" THEN Transformers ELSE {"none"}

Credentials ==
    [apiKey : {"", "key"}, apiSecret : {"", "secret"}, authToken : {"", "token"}]
TimeoutOpts == {Undef, Num(-1), Num(0), Num(5), Fraction}

\* The options the client is constructed with, by what the caller exercises.
OptionsOf(e) ==
    IF e = "request"
    THEN {[apiKey |-> cr.apiKey, apiSecret |-> cr.apiSecret, authToken |-> cr.authToken,
           transform |-> FALSE, timeout |-> t] : cr \in Credentials, t \in TimeoutOpts}
    ELSE IF e = "response"
    THEN {[apiKey |-> "key", apiSecret |-> "secret", authToken |-> "",
           transform |-> tf, timeout |-> Undef] : tf \in BOOLEAN}
    ELSE IF e = "endpoint"
    THEN {[apiKey |-> k, apiSecret |-> k, authToken |-> "",
           transform |-> FALSE, timeout |-> Undef] : k \in {"", "key"}}
    ELSE IF e = "close"
    THEN {[apiKey |-> k, apiSecret |-> k, authToken |-> "",
           transform |-> tf, timeout |-> Undef] : k \in {"", "key"}, tf \in BOOLEAN}
    ELSE {[apiKey |-> "key", apiSecret |-> "secret", authToken |-> tok,
           transform |-> FALSE, timeout |-> Undef] : tok \in {"", "token"}}

\* ----------------------------------------------------------------- actions

InitOf(envs) ==
    /\ env \in envs
    /\ \E opts \in OptionsOf(env) : client = Construct(opts)
    /\ calls = [s \in Slots |-> IdleCall]
    /\ last = 0
    /\ sent = <<>>
    /\ issued = 0
    /\ received = <<>>

\* A caller that issues one call at a time.
Init == InitOf({"request", "response"})
\* A caller that issues calls without waiting for the earlier ones.
InitConcurrent == InitOf({"concurrent"})
\* Both callers, with every timeout a client can be constructed with.
InitLive == InitOf({"request", "concurrent"})

Constructed == client[1] = "client"
this == client[2]

Idle(s) == calls[s].pc = "idle"
InFlight(s) == calls[s].pc \in {"fetching", "reading"}

\* The slot a new call takes: the lowest free one; a caller that is not
\* concurrent waits until no call is in progress.
FreeSlot(s) ==
    /\ Constructed
    /\ issued < MaxCalls
    /\ Idle(s)
    /\ \A r \in Slots : r < s => ~Idle(r)
    /\ env # "concurrent" => \A r \in Slots : Idle(r)

\* The call completes without reaching the transport: `ret` is what the
\* primitive returned or threw, `log` the callback invocations it made.
Completed(call, log, ret) ==
    [call EXCEPT !.pc = "done", !.log = log, !.promise = Settle(ret)]

\* The call reaches the transport: this._fetch(url, reqOpts) is called.
Fetching(call, reqOpts, url) ==
    [call EXCEPT !.pc = "fetching",
                 !.req = <<"request", [url |-> url] @@ reqOpts>>,
                 !.timer = IF "signal" \in DOMAIN reqOpts THEN reqOpts.signal ELSE -1,
                 !.fetches = @ + 1]

\* The statements of RESTv2._makeAuthRequest up to its first await, for the
\* call that holds its path, payload, callback and transformer.
StartAuthRequest(s, call, now) ==
    IF CredentialsMissing(this)
    THEN \E r \in {Cb(NewError("Error", <<"missing api key or secret">>), Null,
                      call.cb, <<>>)} :
            /\ calls' = [calls EXCEPT ![s] = Completed(call, r.log, r.ret)]
            /\ UNCHANGED <<last, sent>>
    ELSE \E n \in {NonceNext(last, now)},
            sanitizedPayload \in {OmitNil(call.payload)},
            signal \in {AbortSignalTimeout(this.timeout)} :
            /\ last' = n
            /\ IF signal[1] = "throw"
               THEN /\ calls' = [calls EXCEPT ![s] = Completed(call, <<>>, signal)]
                    /\ UNCHANGED sent
               ELSE \E reqOpts \in {AuthReqOpts(this, call.path, n, sanitizedPayload,
                                                signal[2])} :
                       /\ calls' = [calls EXCEPT ![s] =
                                      Fetching(call, reqOpts,
                                               RequestUrl(this, call.path))]
                       /\ sent' = Append(sent, reqOpts.headers["bfx-nonce"])

\* A call of RESTv2._makeAuthRequest by the caller, up to its first await.
AuthRequest(s, call, now) ==
    /\ FreeSlot(s)
    /\ issued' = issued + 1
    /\ StartAuthRequest(s, call, now)
    /\ UNCHANGED <<env, client, received>>

\* RESTv2._makeAuthRequest(path, payload, cb, transformer), up to its first
\* await.
MakeAuthRequest(s, path, payload, cb, transformer, now) ==
    AuthRequest(s, [IdleCall EXCEPT !.kind = "auth", !.path = path, !.payload = payload,
                                    !.cb = cb, !.transformer = transformer], now)

\* _makePublicRequest that takes any completion handler.
MakePublicRequestAnyCb(s, path, cb, transformer) ==
    /\ FreeSlot(s)
    /\ issued' = issued + 1
    /\ \E call \in {[IdleCall EXCEPT !.kind = "get", !.path = path, !.cb = cb,
                                     !.transformer = transformer]},
          signal \in {AbortSignalTimeout(this.timeout)} :
          calls' = [calls EXCEPT ![s] =
            IF signal[1] = "throw"
            THEN Completed(call, <<>>, signal)
            ELSE Fetching(call, PublicReqOpts(signal[2]), RequestUrl(this, path))]
    /\ UNCHANGED <<env, client, received, last, sent>>

\* RESTv2._makePublicRequest(path, cb, transformer), up to its first await.
MakePublicRequest(s, path, cb, transformer) ==
    /\ FreeSlot(s)
    /\ issued' = issued + 1
    /\ \E call \in {[IdleCall EXCEPT !.kind = "get", !.path = path, !.cb = cb,
                                     !.transformer = transformer]},
          signal \in {AbortSignalTimeout(this.timeout)} :
          calls' = [calls EXCEPT ![s] =
            IF cb # "none" /\ cb \notin {"fn", "fnThrows"}
            THEN Completed(call, <<>>,
                   <<"throw", NewError("Error",
                                <<"_makePublicRequest cb param must be a function">>)>>)
            ELSE IF signal[1] = "throw"
            THEN Completed(call, <<>>, signal)
            ELSE Fetching(call, PublicReqOpts(signal[2]), RequestUrl(this, path))]
    /\ UNCHANGED <<env, client, received, last, sent>>

\* RESTv2._makePublicPostRequest(path, payload, cb, transformer), up to its
\* first await.
MakePublicPostRequest(s, path, payload, cb, transformer) ==
    /\ FreeSlot(s)
    /\ issued' = issued + 1
    /\ \E call \in {[IdleCall EXCEPT !.kind = "post", !.path = path,
                                     !.payload = payload, !.cb = cb,
                                     !.transformer = transformer]},
          sanitizedPayload \in {OmitNil(payload)},
          signal \in {AbortSignalTimeout(this.timeout)} :
          calls' = [calls EXCEPT ![s] =
            IF signal[1] = "throw"
            THEN Completed(call, <<>>, signal)
            ELSE Fetching(call, PublicPostReqOpts(sanitizedPayload, signal[2]),
                          RequestUrl(this, path))]
    /\ UNCHANGED <<env, client, received, last, sent>>

\* What `resp` stands for when fetch or text() rejected: it is never read.
NoResponse == HttpResponse(0, <<>>, "", <<>>)

\* A _request that calls the transport a second time when the first call
\* was rejected or aborted.
FinishRetrying(call, thrown) ==
    LET Done(r) ==
            [call EXCEPT !.pc = "done", !.timer = -1, !.log = r.log,
                         !.promise = Settle(r.ret), !.made = r.made]
    IN IF Truthy(thrown) /\ call.fetches < 2
       THEN [call EXCEPT !.pc = "fetching", !.resp = <<"none">>,
                         !.timer = call.req[2].signal, !.fetches = @ + 1]
       ELSE Done(RequestBody(thrown,
                             IF call.resp[1] = "response" THEN call.resp[2]
                             ELSE NoResponse,
                             call.transformer, call.cb, this.transform))

\* The rest of RESTv2._request once fetch or text() has settled: `thrown` is
\* what was rejected with, or Null.
Finish(call, thrown) ==
    LET Done(r) ==
            [call EXCEPT !.pc = "done", !.timer = -1, !.log = r.log,
                         !.promise = Settle(r.ret), !.made = r.made]
    IN Done(RequestBody(thrown,
                        IF call.resp[1] = "response" THEN call.resp[2] ELSE NoResponse,
                        call.transformer, call.cb, this.transform))

\* The transport resolves fetch with a response; _request awaits its text.
FetchResolve(s, resp) ==
    /\ calls[s].pc = "fetching"
    /\ calls' = [calls EXCEPT ![s].pc = "reading", ![s].resp = <<"response", resp>>]
    /\ UNCHANGED <<env, client, received, last, sent, issued>>

\* The transport rejects fetch: the connection failed.
FetchReject(s) ==
    /\ calls[s].pc = "fetching"
    /\ \E done \in {Finish(calls[s], NewError("TypeError", <<"fetch failed">>))} :
          calls' = [calls EXCEPT ![s] = done]
    /\ UNCHANGED <<env, client, received, last, sent, issued>>

\* text() resolves with the raw body and _request runs to its end.
ReadBody(s) ==
    /\ calls[s].pc = "reading"
    /\ \E done \in {Finish(calls[s], Null)} : calls' = [calls EXCEPT ![s] = done]
    /\ UNCHANGED <<env, client, received, last, sent, issued>>

\* What fetch and text() reject with when the signal of AbortSignal.timeout
\* fires.
TimeoutError == NewError("TimeoutError", <<"The operation was aborted due to timeout">>)

\* The request's signal fires: the transport is aborted, and fetch or text()
\* rejects with the signal's TimeoutError.
Timeout(s) ==
    /\ InFlight(s)
    /\ calls[s].timer = 0
    /\ \E done \in {Finish([calls[s] EXCEPT !.resp = <<"aborted">>],
                             TimeoutError)} :
          calls' = [calls EXCEPT ![s] = done]
    /\ UNCHANGED <<env, client, received, last, sent, issued>>

\* Time passes, up to the earliest deadline of a request in flight.
Tick ==
    /\ \E s \in Slots : InFlight(s)
    /\ \A s \in Slots : InFlight(s) => calls[s].timer > 0
    /\ LET d == CHOOSE t \in {calls[s].timer : s \in {r \in Slots : InFlight(r)}} :
                   \A s \in Slots : InFlight(s) => t <= calls[s].timer
       IN calls' = [s \in Slots |->
                      IF InFlight(s) THEN [calls[s] EXCEPT !.timer = @ - d]
                      ELSE calls[s]]
    /\ UNCHANGED <<env, client, received, last, sent, issued>>

\* The caller takes the completion of a finished call; its slot is free again.
Collect(s) ==
    /\ calls[s].pc = "done"
    /\ calls' = [calls EXCEPT ![s] = IdleCall]
    /\ UNCHANGED <<env, client, received, last, sent, issued>>

\* The slots a new call can take, and the slots whose fetch is outstanding.
FreeSlots == {s \in Slots : FreeSlot(s)}
FetchingSlots == {s \in Slots : calls[s].pc = "fetching"}

Next ==
    \/ \E s \in FreeSlots :
          \E path \in PathsOf(env), payload \in PayloadsOf(env),
             cb \in CallbacksOf(env), transformer \in TransformersOf(env),
             now \in 0..MaxNow :
             MakeAuthRequest(s, path, payload, cb, transformer, now)
    \/ \E s \in FreeSlots :
          \E path \in PathsOf(env), cb \in CallbacksOf(env) \cup {"notFn"},
             transformer \in TransformersOf(env) :
             MakePublicRequest(s, path, cb, transformer)
    \/ \E s \in FreeSlots :
          \E path \in PathsOf(env), payload \in PayloadsOf(env),
             cb \in CallbacksOf(env), transformer \in TransformersOf(env) :
             MakePublicPostRequest(s, path, payload, cb, transformer)
    \/ \E s \in FetchingSlots : \E resp \in ResponsesOf(env) : FetchResolve(s, resp)
    \/ \E s \in Slots : FetchReject(s)
    \/ \E s \in Slots : ReadBody(s)
    \/ \E s \in Slots : Timeout(s)
    \/ Tick
    \/ \E s \in Slots : Collect(s)

Spec == Init /\ [][Next]_vars
SpecConcurrent == InitConcurrent /\ [][Next]_vars
\* A caller that issues one call at a time on a client with the default
\* timeout, with every response, transformer and callback.
InitResponse == InitOf({"response"})
SpecResponse == InitResponse /\ [][Next]_vars

\* ---------------------------------------------------------- direct calls

\* The data a transform is called with: falsy values, empty and non-empty
\* arrays of rows, flat arrays, an array whose first element alone is a row,
\* one whose first element alone is no row, and values that are no array.
MixedRows == Arr(<<Arr(<<Num(1)>>), Num(2)>>)
RowsLater == Arr(<<Num(1), Arr(<<Num(2)>>)>>)
TransformData ==
    {Null, Undef, Num(0), Str(<<>>), Bool(FALSE), Arr(<<>>), Rows2D, FlatRow,
     Arr(<<Arr(<<>>)>>), MixedRows, RowsLater, Num(7), Str(<<"ok">>), ErrorObject}

\* A call made on the client directly, that returns or throws at once.
Direct(kind, data, transformer, r) ==
    [IdleCall EXCEPT !.pc = "done", !.kind = kind, !.payload = data,
                     !.transformer = transformer, !.ret = r.out, !.made = r.made]

\* rest._classTransform(data, M) for a model class M.
ClassTransformCall(s, data) ==
    /\ FreeSlot(s)
    /\ issued' = issued + 1
    /\ calls' = [calls EXCEPT ![s] =
                   Direct("_classTransform", data, "class",
                          ClassTransform(data, this.transform))]
    /\ UNCHANGED <<env, client, received, last, sent>>

\* rest._doTransform(data, transformer)
DoTransformCall(s, data, transformer) ==
    /\ FreeSlot(s)
    /\ issued' = issued + 1
    /\ calls' = [calls EXCEPT ![s] =
                   Direct("_doTransform", data, transformer,
                          DoTransform(data, transformer, this.transform))]
    /\ UNCHANGED <<env, client, received, last, sent>>

\* ------------------------------------------------------------------- RESTv1

HelpLinkV1 ==
    <<" See https://github.com/bitfinexcom/bitfinex-api-node/blob/master/README.md#nonce-too-small for help">>

\* /nonce is too small/i.test(text), on a text whose tokens are phrases.
NonceIsTooSmall(text) ==
    \E i \in DOMAIN text :
        text[i] \in {"nonce is too small", "Nonce is too small", "NONCE IS TOO SMALL"}

\* The RESTv1 constructor.
ConstructV1(opts) ==
    <<"client",
      [url |-> API_URL, apiKey |-> opts.apiKey, apiSecret |-> opts.apiSecret,
       timeout |-> IF IsNil(opts.timeout) THEN BASE_TIMEOUT ELSE opts.timeout[2]]>>

\* cb(err) or cb(null, data) of RESTv1: the invocations so far extended by this
\* one, and what the call of the callback returns or throws.
CallbackV1(err, data, cb, log) ==
    [log |-> Append(log, <<err, data>>),
     ret |-> IF cb = "fnThrows" THEN <<"throw", CallbackError>> ELSE <<"return", Undef>>]

\* A _parse_req_body whose test for the nonce error is case-sensitive.
ParseReqBodyCaseSensitive(result, cb, log) ==
    IF IsNil(result)
    THEN [log |-> log,
          ret |-> <<"throw", NewError("TypeError", <<"Cannot read properties of null">>)>>]
    ELSE IF Tag(result) = "obj" /\ Tag(GetProp(result, "message")) = "str"
    THEN CallbackV1(NewError("Error",
                             IF \E i \in DOMAIN GetProp(result, "message")[2] :
                                   GetProp(result, "message")[2][i] = "nonce is too small"
                             THEN GetProp(result, "message")[2] \o HelpLinkV1
                             ELSE GetProp(result, "message")[2]),
                    Undef, cb, log)
    ELSE CallbackV1(Null, result, cb, log)

\* RESTv1._parse_req_body
ParseReqBody(result, cb, log) ==
    IF IsNil(result)
    THEN [log |-> log,
          ret |-> <<"throw", NewError("TypeError", <<"Cannot read properties of null">>)>>]
    ELSE IF Tag(result) = "obj" /\ Tag(GetProp(result, "message")) = "str"
    THEN CallbackV1(NewError("Error",
                             IF NonceIsTooSmall(GetProp(result, "message")[2])
                             THEN GetProp(result, "message")[2] \o HelpLinkV1
                             ELSE GetProp(result, "message")[2]),
                    Undef, cb, log)
    ELSE CallbackV1(Null, result, cb, log)

\* The try and catch of make_request and make_public_request: `thrown` is what
\* fetch or json() rejected with for a reason of the transport, or Null.
RequestBodyV1(thrown, resp, cb) ==
    LET \* catch (err) { return cb(err) }
        Caught(tried) ==
            IF tried.ret[1] = "throw"
            THEN CallbackV1(tried.ret[2], Undef, cb, tried.log)
            ELSE tried
        Tried(parsed) ==
            Caught(IF Truthy(thrown)
                   THEN [log |-> <<>>, ret |-> <<"throw", thrown>>]
                   ELSE IF ~resp.ok /\ resp.status # 400
                   THEN [log |-> <<>>,
                         ret |-> <<"throw",
                                   NewError("Error", <<"HTTP code ">> \o NumText(resp.status)
                                                       \o <<" ">> \o resp.statusText)>>]
                   ELSE IF parsed[1] = "throw"
                   THEN [log |-> <<>>,
                         ret |-> <<"throw",
                                   NewError("SyntaxError", <<"Unexpected token">>)>>]
                   ELSE ParseReqBody(parsed[2], cb, <<>>))
    IN Tried(JSONParse(resp.raw))

\* The call of a RESTv1 primitive ends.
FinishV1(call, thrown) ==
    LET Done(r) ==
            [call EXCEPT !.pc = "done", !.timer = -1, !.log = r.log,
                         !.promise = Settle(r.ret)]
    IN Done(RequestBodyV1(thrown,
                          IF call.resp[1] = "response" THEN call.resp[2] ELSE NoResponse,
                          call.cb))

\* RESTv1.make_request(path, params, cb), up to its first await.
MakeRequestV1(s, path, params, cb, now) ==
    /\ FreeSlot(s)
    /\ issued' = issued + 1
    /\ \E call \in {[IdleCall EXCEPT !.kind = "make_request", !.path = path,
                                     !.payload = params, !.cb = cb]} :
          IF this.apiKey = "" \/ this.apiSecret = ""
          THEN \E r \in {CallbackV1(NewError("Error", <<"missing api key or secret">>),
                                    Undef, cb, <<>>)} :
                  /\ calls' = [calls EXCEPT ![s] = Completed(call, r.log, r.ret)]
                  /\ UNCHANGED last
          ELSE IF path = <<>>
          THEN \E r \in {CallbackV1(NewError("Error", <<"path is missing">>),
                                    Undef, cb, <<>>)} :
                  /\ calls' = [calls EXCEPT ![s] = Completed(call, r.log, r.ret)]
                  /\ UNCHANGED last
          ELSE \E n \in {NonceNext(last, now)},
                  signal \in {AbortSignalTimeout(this.timeout)} :
                  /\ last' = n
                  /\ \E payloadBase64 \in
                         {<<"base64",
                            Stringify(Spread(Obj(<< <<"request", Str(<<"/v1/">> \o path)>>,
                                                    <<"nonce", Str(NumText(n))>> >>),
                                             params[2]))>>} :
                        calls' = [calls EXCEPT ![s] =
                          IF signal[1] = "throw"
                          THEN Completed(call, <<>>, signal)
                          ELSE Fetching(call,
                                 [method |-> "POST",
                                  signal |-> signal[2],
                                  headers |->
                                     ("X-BFX-APIKEY" :> this.apiKey)
                                     @@ ("X-BFX-PAYLOAD" :> payloadBase64)
                                     @@ ("X-BFX-SIGNATURE" :>
                                           GenAuthSig(this.apiSecret, payloadBase64))],
                                 this.url \o <<"/v1/">> \o path)]
    /\ UNCHANGED <<env, client, received, sent>>

\* RESTv1.make_public_request(path, cb), up to its first await.
MakePublicRequestV1(s, path, cb) ==
    /\ FreeSlot(s)
    /\ issued' = issued + 1
    /\ \E call \in {[IdleCall EXCEPT !.kind = "make_public_request", !.path = path,
                                     !.cb = cb]},
          r \in {CallbackV1(NewError("Error", <<"path is missing">>), Undef, cb, <<>>)},
          signal \in {AbortSignalTimeout(this.timeout)} :
          calls' = [calls EXCEPT ![s] =
            IF path = <<>>
            THEN Completed(call, r.log, r.ret)
            ELSE IF signal[1] = "throw"
            THEN Completed(call, <<>>, signal)
            ELSE Fetching(call, [method |-> "GET", signal |-> signal[2]],
                          this.url \o <<"/v1/">> \o path)]
    /\ UNCHANGED <<env, client, received, last, sent>>

\* The transport resolves fetch with a response: a status that is neither a
\* success code nor 400 ends the call, any other lets it await json().
FetchResolveV1(s, resp) ==
    /\ calls[s].pc = "fetching"
    /\ \E call \in {[calls[s] EXCEPT !.resp = <<"response", resp>>]} :
          calls' = [calls EXCEPT ![s] =
                      IF ~resp.ok /\ resp.status # 400
                      THEN FinishV1(call, Null)
                      ELSE [call EXCEPT !.pc = "reading"]]
    /\ UNCHANGED <<env, client, received, last, sent, issued>>

\* The transport rejects fetch: the connection failed.
FetchRejectV1(s) ==
    /\ calls[s].pc = "fetching"
    /\ \E done \in {FinishV1(calls[s], NewError("TypeError", <<"fetch failed">>))} :
          calls' = [calls EXCEPT ![s] = done]
    /\ UNCHANGED <<env, client, received, last, sent, issued>>

\* json() settles and the primitive runs to its end.
ReadJsonV1(s) ==
    /\ calls[s].pc = "reading"
    /\ \E done \in {FinishV1(calls[s], Null)} : calls' = [calls EXCEPT ![s] = done]
    /\ UNCHANGED <<env, client, received, last, sent, issued>>

\* The request's signal fires: fetch or json() rejects with the TimeoutError.
TimeoutV1(s) ==
    /\ InFlight(s)
    /\ calls[s].timer = 0
    /\ \E done \in {FinishV1([calls[s] EXCEPT !.resp = <<"aborted">>], TimeoutError)} :
          calls' = [calls EXCEPT ![s] = done]
    /\ UNCHANGED <<env, client, received, last, sent, issued>>

\* What the v1 API answers with.
ResponsesV1 ==
    {HttpResponse(x[1][1], x[1][2], "application/json", Stringify(x[2])) :
        x \in {<<200, <<"OK">>>>, <<400, <<"Bad Request">>>>, <<500, <<>>>>,
               <<404, <<"Not Found">>>>} \X V1Bodies}
    \cup {HttpResponse(200, <<"OK">>, "text/plain", <<"not json">>),
          HttpResponse(500, <<"Internal Server Error">>, "text/plain", <<"Server Error">>)}

InitV1 ==
    /\ env = "v1"
    /\ \E k \in {"", "key"}, t \in {Undef, Num(0)} :
          client = ConstructV1([apiKey |-> k, apiSecret |-> k, timeout |-> t])
    /\ calls = [s \in Slots |-> IdleCall]
    /\ last = 0
    /\ sent = <<>>
    /\ issued = 0
    /\ received = <<>>
NextV1 ==
    \/ \E s \in FreeSlots :
          \E path \in {<<>>, <<"test">>}, params \in {Obj(<<>>), Obj(<< <<"a", Num(1)>> >>)},
             cb \in {"fn", "fnThrows"}, now \in 0..MaxNow :
             MakeRequestV1(s, path, params, cb, now)
    \/ \E s \in FreeSlots :
          \E path \in {<<>>, <<"test">>}, cb \in {"fn", "fnThrows"} :
             MakePublicRequestV1(s, path, cb)
    \/ \E s \in FetchingSlots : \E resp \in ResponsesV1 : FetchResolveV1(s, resp)
    \/ \E s \in Slots : FetchRejectV1(s)
    \/ \E s \in Slots : ReadJsonV1(s)
    \/ \E s \in Slots : TimeoutV1(s)
    \/ Tick
    \/ \E s \in Slots : Collect(s)
\* The deprecated RESTv1 client with a caller that makes one call at a time.
SpecV1 == InitV1 /\ [][NextV1]_vars

\* ------------------------------------------------------------------- server

\* The server's answers to a request it accepts, and to a key-signed request
\* whose nonce is not above every nonce it has received for the key.
ServerAccepts == HttpResponse(200, <<"OK">>, "application/json", Stringify(FlatRow))
ServerRejects ==
    HttpResponse(400, <<"Bad Request">>, "application/json", Stringify(NonceTriple))

\* A request in flight arrives at the server, whichever was sent first, and
\* the server answers it: each key-signed request must have a strictly
\* increasing nonce.
Serve(s) ==
    /\ calls[s].pc = "fetching"
    /\ \E headers \in {calls[s].req[2].headers} :
          IF "bfx-apikey" \in DOMAIN headers
          THEN \E n \in {HeaderNonce(headers["bfx-nonce"])} :
                  /\ received' = Append(received, n)
                  /\ calls' = [calls EXCEPT
                        ![s].pc = "reading",
                        ![s].resp = <<"response",
                                      IF \E i \in DOMAIN received : received[i] >= n
                                      THEN ServerRejects ELSE ServerAccepts>>]
          ELSE /\ received' = received
               /\ calls' = [calls EXCEPT ![s].pc = "reading",
                                         ![s].resp = <<"response", ServerAccepts>>]
    /\ UNCHANGED <<env, client, last, sent, issued>>

\* A caller that issues authenticated calls one at a time, or without waiting.
InitServer == InitOf({"serial", "concurrent"})
NextServer ==
    \/ \E s \in FreeSlots :
          \E path \in PathsOf(env), payload \in PayloadsOf(env),
             cb \in CallbacksOf(env), now \in 0..MaxNow :
             MakeAuthRequest(s, path, payload, cb, "none", now)
    \/ \E s \in FetchingSlots : Serve(s)
    \/ \E s \in Slots : FetchReject(s)
    \/ \E s \in Slots : ReadBody(s)
    \/ \E s \in Slots : Timeout(s)
    \/ Tick
    \/ \E s \in Slots : Collect(s)
\* The client and the server that checks the nonces.
SpecServer == InitServer /\ [][NextServer]_vars

\* ---------------------------------------------------------------- endpoints

\* pick(obj, keys): the fields of obj among keys, in the order of keys.
Pick(obj, keys) ==
    LET Picked(present) ==
            Obj([i \in DOMAIN present |-> <<present[i], GetProp(obj, present[i])>>])
    IN Picked(SelectSeq(keys, LAMBDA k : HasProp(obj, k)))

ORDER_MULTI == <<"/auth/w/order/multi">>

\* What an endpoint does with its params ahead of any request: the message of
\* the error it hands to _cb, or the path and payload it hands to
\* _makeAuthRequest.
\* submitOrderMulti that hands its orders to _makeAuthRequest unvalidated.
SubmitOrderMultiUnchecked(params) ==
    [error |-> <<>>, path |-> ORDER_MULTI, payload |-> Obj(<< <<"ops", Arr(<<>>)>> >>)]
\* RESTv2.submitOrderMulti, for orders that hold no order.
SubmitOrderMulti(params) ==
    IF ~IsArray(GetProp(params, "orders"))
    THEN [error |-> <<"orders should be an array">>, path |-> <<>>, payload |-> Undef]
    ELSE [error |-> <<>>, path |-> ORDER_MULTI,
          payload |-> Obj(<< <<"ops", Arr(<<>>)>> >>)]
\* RESTv2.updateOrderMulti
UpdateOrderMulti(params) ==
    IF ~IsArray(GetProp(params, "orders"))
    THEN [error |-> <<"orders should be an array">>, path |-> <<>>, payload |-> Undef]
    ELSE [error |-> <<>>, path |-> ORDER_MULTI,
          payload |-> Obj(<< <<"ops",
                        Arr([i \in DOMAIN GetProp(params, "orders")[2] |->
                               Arr(<<Str(<<"ou">>), GetProp(params, "orders")[2][i]>>)])>> >>)]
\* RESTv2.cancelOrders
CancelOrders(params) ==
    IF ~IsArray(GetProp(params, "ids"))
    THEN [error |-> <<"ids should be an array">>, path |-> <<>>, payload |-> Undef]
    ELSE [error |-> <<>>, path |-> ORDER_MULTI,
          payload |-> Obj(<< <<"ops",
                        Arr(<< Arr(<<Str(<<"oc_multi">>),
                                     Obj(<< <<"id", GetProp(params, "ids")>> >>)>>) >>)>> >>)]
\* RESTv2.orderMultiOp, for ops that submit no new order.
OrderMultiOp(params) ==
    IF ~IsArray(GetProp(params, "ops"))
    THEN [error |-> <<"ops should be an array">>, path |-> <<>>, payload |-> Undef]
    ELSE IF \E i \in DOMAIN GetProp(params, "ops")[2] : ~IsArray(GetProp(params, "ops")[2][i])
    THEN [error |-> <<"ops should contain only arrays">>, path |-> <<>>, payload |-> Undef]
    ELSE [error |-> <<>>, path |-> ORDER_MULTI,
          payload |-> Obj(<< <<"ops", GetProp(params, "ops")>> >>)]
\* RESTv2.generateToken
GenerateToken(params) ==
    LET Checked(opts) ==
            IF ~Truthy(GetProp(opts, "scope"))
            THEN [error |-> <<"scope param is required">>, path |-> <<>>, payload |-> Undef]
            ELSE [error |-> <<>>, path |-> <<"/auth/w/token">>, payload |-> opts]
    IN Checked(OmitNil(Pick(params,
                            <<"ttl", "scope", "caps", "writePermission", "_cust_ip">>)))

\* The endpoints that validate their params, with the params the caller
\* passes: the ones of the validation tests, and ones that pass.
EndpointParams ==
    [submitOrderMulti |->
        {Obj(<< <<"orders", Str(<<"not-an-array">>)>> >>), Obj(<<>>),
         Obj(<< <<"orders", Arr(<<>>)>> >>)},
     updateOrderMulti |->
        {Obj(<< <<"orders", Str(<<"not-an-array">>)>> >>), Obj(<< <<"orders", Null>> >>),
         Obj(<< <<"orders", Arr(<<Arr(<<Num(1)>>)>>)>> >>)},
     cancelOrders |->
        {Obj(<< <<"ids", Num(123)>> >>), Obj(<< <<"ids", Arr(<<Num(1)>>)>> >>)},
     orderMultiOp |->
        {Obj(<< <<"ops", Str(<<"not-an-array">>)>> >>), Obj(<< <<"ops", Arr(<<Num(1)>>)>> >>),
         Obj(<< <<"ops", Arr(<<Arr(<<Str(<<"oc">>), Obj(<< <<"id", Num(1)>> >>)>>)>>)>> >>)},
     generateToken |->
        {Obj(<<>>), Obj(<< <<"scope", Str(<<>>)>> >>),
         Obj(<< <<"scope", Null>>, <<"ttl", Num(5)>> >>),
         Obj(<< <<"scope", Str(<<"api">>)>>, <<"ttl", Num(5)>>, <<"caps", Null>>,
                <<"other", Num(1)>> >>)}]

\* The endpoint applied to its params.
Endpoint(endpoint, params) ==
    CASE endpoint = "submitOrderMulti" -> SubmitOrderMulti(params)
      [] endpoint = "updateOrderMulti" -> UpdateOrderMulti(params)
      [] endpoint = "cancelOrders" -> CancelOrders(params)
      [] endpoint = "orderMultiOp" -> OrderMultiOp(params)
      [] endpoint = "generateToken" -> GenerateToken(params)

\* rest[endpoint](params, cb), up to its first await: the validation error goes
\* to _cb and the endpoint returns what _cb returns or throws; params that
\* pass go to _makeAuthRequest.
EndpointCall(s, endpoint, params, cb, now) ==
    \E plan \in {Endpoint(endpoint, params)} :
        IF plan.error # <<>>
        THEN /\ FreeSlot(s)
             /\ issued' = issued + 1
             /\ \E r \in {Cb(NewError("Error", plan.error), Null, cb, <<>>)} :
                   calls' = [calls EXCEPT ![s] =
                     [IdleCall EXCEPT !.pc = "done", !.kind = endpoint, !.params = params,
                                      !.cb = cb, !.log = r.log, !.ret = r.ret,
                                      !.promise = IF r.ret[1] = "return"
                                                     /\ Tag(r.ret[2]) = "promise"
                                                  THEN r.ret[2] ELSE Pending]]
             /\ UNCHANGED <<env, client, received, last, sent>>
        ELSE AuthRequest(s, [IdleCall EXCEPT !.kind = endpoint, !.params = params,
                                             !.path = plan.path, !.payload = plan.payload,
                                             !.cb = cb], now)

InitEndpoint == InitOf({"endpoint"})
NextEndpoint ==
    \/ \E s \in FreeSlots :
          \E endpoint \in DOMAIN EndpointParams, cb \in Callbacks \ {"notFn"},
             now \in 0..MaxNow :
             \E params \in EndpointParams[endpoint] :
                EndpointCall(s, endpoint, params, cb, now)
    \/ \E s \in FetchingSlots : \E resp \in ResponsesOf(env) : FetchResolve(s, resp)
    \/ \E s \in Slots : FetchReject(s)
    \/ \E s \in Slots : ReadBody(s)
    \/ \E s \in Slots : Timeout(s)
    \/ Tick
    \/ \E s \in Slots : Collect(s)
\* The validating endpoints, called one at a time on clients with and without
\* credentials.
SpecEndpoint == InitEndpoint /\ [][NextEndpoint]_vars

\* ------------------------------------------------------------ closePosition

\* A field of a Position model, read from the row the model was built from.
PositionGet(position, field) ==
    LET At(row, i) == IF IsArray(row) /\ Len(row[2]) >= i THEN row[2][i] ELSE Undef
    IN At(position[2], CASE field = "symbol" -> 1
                         [] field = "status" -> 2
                         [] field = "amount" -> 3
                         [] field = "id" -> 12)

\* new Order({ type: Order.type.MARKET, symbol, amount, flags:
\* Order.flags.POS_CLOSE }).toNewOrderPacket(): the amount goes out as text.
NewOrderPacket(symbol, amount) ==
    Obj(<< <<"type", Str(<<"MARKET">>)>>, <<"symbol", symbol>>,
           <<"amount", Str(NumText(amount))>>, <<"flags", Num(512)>> >>)

\* _takeResNotify(res).notifyInfo
TakeResNotify(res) ==
    IF IsArray(res) /\ Len(res[2]) >= 5 THEN res[2][5] ELSE Undef

\* closePosition's first reaction with a search that takes a position of any
\* status.
FindPositionAnyStatus(res, position_id, transformFlag) ==
    IF ~IsArray(res)
    THEN <<"throw", NewError("TypeError", <<"positions.map is not a function">>)>>
    ELSE LET Found(positions) ==
                 IF \E i \in DOMAIN positions :
                       PositionGet(positions[i], "id") = position_id
                 THEN <<"return",
                        positions[CHOOSE i \in DOMAIN positions :
                            /\ PositionGet(positions[i], "id") = position_id
                            /\ \A j \in 1..(i - 1) :
                                  PositionGet(positions[j], "id") # position_id]>>
                 ELSE <<"throw", NewError("Error", <<"position not found">>)>>
         IN Found(IF transformFlag THEN res[2]
                  ELSE [i \in DOMAIN res[2] |-> Model(res[2][i])])

\* closePosition's first reaction: the position with the id that is ACTIVE, or
\* the error thrown.
FindPosition(res, position_id, transformFlag) ==
    IF ~IsArray(res)
    THEN <<"throw", NewError("TypeError", <<"positions.map is not a function">>)>>
    ELSE LET Is(p) ==
                 /\ PositionGet(p, "id") = position_id
                 /\ PositionGet(p, "status") = Str(<<"ACTIVE">>)
             Found(positions) ==
                 IF \E i \in DOMAIN positions : Is(positions[i])
                 THEN <<"return",
                        positions[CHOOSE i \in DOMAIN positions :
                            /\ Is(positions[i])
                            /\ \A j \in 1..(i - 1) : ~Is(positions[j])]>>
                 ELSE <<"throw", NewError("Error", <<"position not found">>)>>
         IN Found(IF transformFlag THEN res[2]
                  ELSE [i \in DOMAIN res[2] |-> Model(res[2][i])])

\* The end of closePosition's chain, .then(res => this._cb(null, res, cb))
\* .catch(err => this._cb(err, null, cb)), on what the chain came to: the call
\* with closePosition's promise settled.
ClosePositionSettle(call, outcome, cb) ==
    LET Closed(r) ==
            [call EXCEPT !.pc = "done", !.kind = "closePosition", !.log = r.log,
                         !.promise = Settle(r.ret)]
        Catch(then) ==
            IF then.ret[1] = "throw"
            THEN Cb(then.ret[2], Null, cb, then.log)
            ELSE then
    IN Closed(Catch(IF outcome[1] = "throw"
                    THEN [log |-> <<>>, ret |-> outcome]
                    ELSE Cb(Null, outcome[2], cb, <<>>)))

\* RESTv2.closePosition(params, cb), up to the first await of positions().
ClosePosition(s, position_id, cb, now) ==
    AuthRequest(s, [IdleCall EXCEPT !.kind = "positions",
                                    !.path = <<"/auth/r/positions">>,
                                    !.payload = Obj(<<>>), !.transformer = "class",
                                    !.params = <<position_id, cb>>], now)

\* The promise of positions() has settled and closePosition's first two
\* reactions run: the search for the position and submitOrder, up to the
\* first await of its request. No affiliate code is set on the client.
PositionsThen(s, now) ==
    /\ calls[s].pc = "done"
    /\ calls[s].kind = "positions"
    /\ \E found \in {IF calls[s].promise[2] = "rejected"
                      THEN <<"throw", calls[s].promise[3]>>
                      ELSE FindPosition(calls[s].promise[3], calls[s].params[1],
                                        this.transform)} :
          IF found[1] = "throw"
          THEN /\ calls' = [calls EXCEPT ![s] =
                              ClosePositionSettle(calls[s], found, calls[s].params[2])]
               /\ UNCHANGED <<last, sent>>
          ELSE StartAuthRequest(s,
                 [calls[s] EXCEPT !.kind = "submitOrder",
                                  !.path = <<"/auth/w/order/submit">>,
                                  !.payload =
                                     NewOrderPacket(PositionGet(found[2], "symbol"),
                                                    PositionGet(found[2], "amount")[2] * (-1)),
                                  !.transformer = "none", !.promise = Pending],
                 now)
    /\ UNCHANGED <<env, client, received, issued>>

\* The promise of submitOrder's request has settled: submitOrder's reaction
\* takes the order out of the notification, and closePosition's chain ends.
SubmitOrderThen(s) ==
    /\ calls[s].pc = "done"
    /\ calls[s].kind = "submitOrder"
    /\ \E orders \in {OrElse(TakeResNotify(calls[s].promise[3]), Arr(<<>>))} :
       \E data \in {IF IsArray(orders) /\ Len(orders[2]) >= 1
                     THEN OrElse(orders[2][1], Arr(<<>>))
                     ELSE Arr(<<>>)} :
          calls' = [calls EXCEPT ![s] =
             ClosePositionSettle(
                calls[s],
                IF calls[s].promise[2] = "rejected"
                THEN <<"throw", calls[s].promise[3]>>
                ELSE IF this.transform
                THEN DoTransform(data, "class", this.transform).out
                ELSE <<"return", data>>,
                calls[s].params[2])]
    /\ UNCHANGED <<env, client, received, last, sent, issued>>

\* What the API answers the request in flight with.
CloseResponses(call) ==
    IF call.kind = "positions"
    THEN {HttpResponse(200, <<"OK">>, "application/json", Stringify(v)) :
             v \in PositionBodies}
         \cup {HttpResponse(400, <<"Bad Request">>, "application/json",
                             Stringify(NonceTriple))}
    ELSE {HttpResponse(200, <<"OK">>, "application/json", Stringify(OrderNotification)),
          HttpResponse(400, <<"Bad Request">>, "application/json",
                       Stringify(ErrorTriple))}

InitClose == InitOf({"close"})
NextClose ==
    \/ \E s \in FreeSlots, position_id \in {Num(1), Num(2)}, cb \in {"none", "fn"},
          now \in 0..MaxNow :
          ClosePosition(s, position_id, cb, now)
    \/ \E s \in Slots, now \in 0..MaxNow : PositionsThen(s, now)
    \/ \E s \in Slots : SubmitOrderThen(s)
    \/ \E s \in FetchingSlots : \E resp \in CloseResponses(calls[s]) : FetchResolve(s, resp)
    \/ \E s \in Slots : FetchReject(s)
    \/ \E s \in Slots : ReadBody(s)
    \/ \E s \in Slots : Timeout(s)
    \/ Tick
    \/ \E s \in Slots : calls[s].kind = "closePosition" /\ Collect(s)
SpecClose == InitClose /\ [][NextClose]_vars

\* ----------------------------------------------------------- direct calls

\* A currency code, and a [key, value] pair of a configuration map.
Code(name) == Str(<<name>>)
Pair(name, value) == Arr(<<Code(name), value>>)
\* An explorer list.
Urls(name) == Arr(<<Str(<<"https://", name>>)>>)

\* The six parts of a currency configuration: listed codes, symbols, labels,
\* pools (in both orders of a chain USDT -> ETH -> BTC), explorers and
\* wallet-fx entries.
ListedCurrencies ==
    {<<>>, <<Code("USDT")>>, <<Code("ETH"), Code("USDT")>>, <<Code("USDT"), Code("USDT")>>}
SymbolMaps ==
    {<<>>, <<Pair("USDT", Code("UST"))>>,
     <<Pair("BTC", Code("XBT")), Pair("USDT", Code("UST"))>>}
LabelMaps ==
    {<<>>, <<Pair("USDT", Code("Tether"))>>,
     <<Pair("ETH", Code("Ethereum")), Pair("USDT", Code("Tether"))>>}
PoolMaps ==
    {<<>>, <<Pair("USDT", Code("ETH"))>>,
     <<Pair("USDT", Code("ETH")), Pair("ETH", Code("BTC"))>>,
     <<Pair("ETH", Code("BTC")), Pair("USDT", Code("ETH"))>>,
     <<Pair("ETH", Code("ETH")), Pair("USDT", Code("ETH"))>>}
ExplorerMaps ==
    {<<>>, <<Pair("ETH", Urls("etherscan.io"))>>, <<Pair("BTC", Urls("blockstream.info"))>>,
     <<Pair("USDT", Urls("tether.to")), Pair("ETH", Urls("etherscan.io"))>>,
     <<Pair("BTC", Urls("blockstream.info")), Pair("ETH", Urls("etherscan.io"))>>}
WalletFxMaps == {<<>>, <<Pair("USDT", Arr(<<Code("wallet1")>>))>>}

\* The configurations of six parts, and data that is no such configuration.
Configurations ==
    {Arr(<<Arr(c[1]), Arr(c[2]), Arr(c[3]), Arr(c[4]), Arr(c[5]), Arr(c[6])>>) :
        c \in ListedCurrencies \X SymbolMaps \X LabelMaps \X PoolMaps \X ExplorerMaps
               \X WalletFxMaps}
Malformed ==
    {Str(<<"hello">>), Arr(<<>>), Arr(<<Num(1), Num(2), Num(3)>>), Null,
     Arr(<<Arr(<<>>), Arr(<<>>), Arr(<<>>), Arr(<<>>), Arr(<<>>)>>),
     Arr(<<Arr(<<>>), Arr(<<>>), Arr(<<>>), Arr(<<>>), Arr(<<>>), Arr(<<>>), Arr(<<>>)>>)}

\* rest._genCurrencyList(data)
GenCurrencyListCall(s, data) ==
    /\ FreeSlot(s)
    /\ issued' = issued + 1
    /\ calls' = [calls EXCEPT ![s] =
                   Direct("_genCurrencyList", data, "none",
                          [out |-> <<"return", GenCurrencyList(data)>>, made |-> 0])]
    /\ UNCHANGED <<env, client, received, last, sent>>

\* A caller that calls the client's transforms directly, as the tests do.
InitDirect ==
    /\ env = "direct"
    /\ \E opts \in OptionsOf("response") : client = Construct(opts)
    /\ calls = [s \in Slots |-> IdleCall]
    /\ last = 0
    /\ sent = <<>>
    /\ issued = 0
    /\ received = <<>>

NextDirect ==
    \/ \E s \in FreeSlots : \E data \in TransformData : ClassTransformCall(s, data)
    \/ \E s \in FreeSlots :
          \E data \in TransformData, transformer \in Transformers :
             DoTransformCall(s, data, transformer)
    \/ \E s \in FreeSlots :
          \E data \in Configurations \cup Malformed : GenCurrencyListCall(s, data)
    \/ \E s \in Slots : Collect(s)

SpecDirect == InitDirect /\ [][NextDirect]_vars

\* The runtime's timers: time passes, and a signal whose delay has passed
\* fires and aborts its request.
Fairness == WF_vars(Tick) /\ \A s \in Slots : WF_vars(Timeout(s))
LiveSpec == InitLive /\ [][Next]_vars /\ Fairness

\* ------------------------------------------------------ reading the state

\* The slots that hold a call, and those whose call reached the transport.
Made == {s \in Slots : calls[s].pc # "idle"}
Requested == {s \in Slots : calls[s].req[1] = "request"}
\* The request a call handed to fetch.
Req(s) == calls[s].req[2]
\* The callback invocations that carried a result, and those that carried an
\* error.
ResultCalls(s) == {i \in DOMAIN calls[s].log : calls[s].log[i][1] = Null}
ErrorCalls(s) == {i \in DOMAIN calls[s].log : calls[s].log[i][1] # Null}
\* The call delivered a result: to the callback, or by resolving the promise
\* of a call that has no callback.
DeliveredResult(s) ==
    \/ ResultCalls(s) # {}
    \/ calls[s].cb \notin {"fn", "fnThrows"} /\ calls[s].promise[2] = "resolved"
\* The call failed with `e`: the callback received it first, or the promise of
\* a call that has no callback function rejected with it.
FailedWith(s, e) ==
    IF calls[s].cb \in {"fn", "fnThrows"}
    THEN calls[s].log # <<>> /\ calls[s].log[1] = <<e, Undef>>
    ELSE calls[s].promise = <<"promise", "rejected", e>>
\* The error a failed call delivered.
ErrorOf(s) ==
    IF calls[s].cb \in {"fn", "fnThrows"} THEN calls[s].log[1][1] ELSE calls[s].promise[3]

\* ------------------------------------------------------------------ claims

\* C1: an authenticated call on a client that has no auth token and lacks the
\* API key or the secret fails with 'missing api key or secret', and fetch is
\* never invoked for it.
C1_MissingCredentials ==
    \A s \in Made :
        (/\ calls[s].kind = "auth"
         /\ (this.apiKey = "" \/ this.apiSecret = "")
         /\ this.authToken = "")
        => /\ calls[s].pc = "done"
           /\ calls[s].fetches = 0
           /\ calls[s].req = <<"none">>
           /\ FailedWith(s, NewError("Error", <<"missing api key or secret">>))
           /\ ~DeliveredResult(s)

\* An authenticated call with a callback on a client that has a key but no
\* secret has completed.
C1_Witness ==
    \E s \in Made :
        /\ calls[s].kind = "auth"
        /\ calls[s].cb = "fn"
        /\ this.apiKey = "key" /\ this.apiSecret = "" /\ this.authToken = ""
        /\ calls[s].pc = "done"

\* C2: the nonces carried by the authenticated requests of one client are
\* strictly increasing in the order the calls were made, so none is used twice.
C2_NoncesIncrease ==
    /\ \A i, j \in DOMAIN sent : i < j => HeaderNonce(sent[i]) < HeaderNonce(sent[j])
    /\ \A s \in Requested :
          calls[s].kind = "auth"
          => \E i \in DOMAIN sent : sent[i] = Req(s).headers["bfx-nonce"]
    /\ \A s, r \in Requested :
          (calls[s].kind = "auth" /\ calls[r].kind = "auth" /\ s # r)
          => Req(s).headers["bfx-nonce"] # Req(r).headers["bfx-nonce"]

\* Two authenticated requests are in flight at once.
C2_Witness ==
    /\ Len(sent) >= 2
    /\ \E s, r \in Requested :
          /\ s # r
          /\ calls[s].kind = "auth" /\ calls[r].kind = "auth"
          /\ calls[s].pc = "fetching" /\ calls[r].pc = "fetching"

\* The authenticated requests signed with the key and the secret.
KeySigned == {s \in Requested : calls[s].kind = "auth" /\ this.authToken = ""}

\* C3: the signature header of a key/secret request is the signature, under
\* the API secret, of '/api/v2', the path, the nonce sent in the nonce header
\* and the body sent, concatenated in that order with nothing between them;
\* the body is the JSON text of the payload without its nil fields.
C3_Signature ==
    \A s \in KeySigned :
        /\ "bfx-signature" \in DOMAIN Req(s).headers
        /\ Req(s).headers["bfx-signature"]
              = GenAuthSig(this.apiSecret,
                           Flatten(<< <<"/api/v2">>, calls[s].path,
                                      Req(s).headers["bfx-nonce"], Req(s).body >>))
        /\ Req(s).body = Stringify(OmitNil(calls[s].payload))

\* A key/secret request whose payload has fields, some of them nil, and whose
\* nonce is not the first one.
C3_Witness ==
    \E s \in KeySigned :
        /\ Req(s).body = <<"{", "\"", "a", "\"", ":", "1", ",", "\"", "b", "\"", ":",
                           "\"", "\"", "}">>
        /\ Req(s).headers["bfx-nonce"] = <<"2">>
        /\ calls[s].path = <<"/auth/r/orders">>

\* The top-level field names of an object, and the value of one of them.
Keys(obj) == {obj[2][i][1] : i \in DOMAIN obj[2]}
Field(obj, key) == obj[2][CHOOSE i \in DOMAIN obj[2] : obj[2][i][1] = key][2]

\* The requests that carry a payload: authenticated and public POSTs.
Posted == {s \in Requested : calls[s].kind \in {"auth", "post"}}

\* C4: the body a POST sends is JSON text whose top-level fields are exactly
\* the payload's fields that hold neither null nor undefined, each with the
\* payload's value; a field that holds an empty string is among them.
C4_BodyOmitsNil ==
    \A s \in Posted :
        /\ JSONParse(Req(s).body)[1] = "ok"
        /\ Keys(JSONParse(Req(s).body)[2])
              = {k \in Keys(calls[s].payload) :
                    Field(calls[s].payload, k) \notin {Null, Undef}}
        /\ \A k \in Keys(JSONParse(Req(s).body)[2]) :
              Field(JSONParse(Req(s).body)[2], k) = Field(calls[s].payload, k)
        /\ \A k \in Keys(calls[s].payload) :
              Field(calls[s].payload, k) = Str(<<>>)
              => k \in Keys(JSONParse(Req(s).body)[2])

\* A public POST was sent whose payload holds a number, an empty string, null
\* and undefined.
C4_Witness ==
    \E s \in Posted :
        /\ calls[s].kind = "post"
        /\ calls[s].payload
              = Obj(<< <<"a", Num(1)>>, <<"b", Str(<<>>)>>, <<"c", Null>>, <<"d", Undef>> >>)
        /\ Keys(JSONParse(Req(s).body)[2]) = {"a", "b"}

\* The authenticated requests, and the names of the auth headers.
Authenticated == {s \in Requested : calls[s].kind = "auth"}
KeyHeaderSet == {"bfx-apikey", "bfx-nonce", "bfx-signature"}
TokenHeaderSet == {"bfx-token"}
AuthHeaderNames(s) == DOMAIN Req(s).headers \cap (KeyHeaderSet \cup TokenHeaderSet)

Answered == {s \in Made : calls[s].pc = "done" /\ calls[s].resp[1] = "response"}
Resp(s) == calls[s].resp[2]
\* The calls answered with a status that is no success code.
Refused == {s \in Answered : Resp(s).status \notin 200..299}

\* C6: the error of a non-success response has the message 'HTTP code <status>
\* <statusText>' and the status; a body that parses to an array of three or
\* more elements gives code = element 1 and response = element 2, a body that
\* parses to anything else gives response = the parsed value and no code, and a
\* body that does not parse gives response = the raw text and no code.
C6_ApiError ==
    \A s \in Refused :
        /\ ErrorOf(s)[2].message
              = Flatten(<< <<"HTTP code ">>, NumText(Resp(s).status), <<" ">>,
                           Resp(s).statusText >>)
        /\ ErrorOf(s)[2].status = Num(Resp(s).status)
        /\ \A v \in JSONValues :
              Stringify(v) = Resp(s).raw
              => IF IsArray(v) /\ Len(v[2]) >= 3
                 THEN /\ ErrorOf(s)[2].code = v[2][2]
                      /\ ErrorOf(s)[2].response = v[2][3]
                 ELSE /\ ErrorOf(s)[2].code = Undef
                      /\ ErrorOf(s)[2].response = v
        /\ (\A v \in JSONValues : Stringify(v) # Resp(s).raw)
              => /\ ErrorOf(s)[2].code = Undef
                 /\ ErrorOf(s)[2].response = Str(Resp(s).raw)

\* A call was refused with status 400 and the body ["error",10010,
\* "ERR_RATE_LIMIT"], and its error carries the code 10010.
C6_Witness ==
    \E s \in Refused :
        /\ Resp(s).status = 400
        /\ Resp(s).raw = Stringify(ErrorTriple)
        /\ ErrorOf(s)[2].code = Num(10010)
        /\ ErrorOf(s)[2].response = Str(<<"ERR_RATE_LIMIT">>)

\* The call delivered an error: to the callback, or by rejecting the promise of
\* a call that has no callback.
DeliveredError(s) ==
    \/ ErrorCalls(s) # {}
    \/ calls[s].cb \notin {"fn", "fnThrows"} /\ calls[s].promise[2] = "rejected"

\* C7: a call answered with a status that is no success code fails with the
\* classified error, delivers no result and never runs the transformer,
\* whatever the body holds; and no call delivers both a result and an error.
C7_RefusedOrResult ==
    /\ \A s \in Refused :
          /\ FailedWith(s, ApiError(Resp(s), Resp(s).raw))
          /\ ~DeliveredResult(s)
          /\ calls[s].made = 0
    /\ \A s \in Made : ~(DeliveredResult(s) /\ DeliveredError(s))

\* The calls answered with a success status, and among them those whose body
\* is the text of no JSON value.
Accepted == {s \in Answered : Resp(s).status \in 200..299}
Unparseable == {s \in Accepted : \A v \in JSONValues : Stringify(v) # Resp(s).raw}

\* C8: a call answered with a success status and a body that is no JSON fails
\* with a parse error, delivers no result and never runs the transformer; the
\* body is parsed from its text whatever content type is declared, so a body
\* that is JSON text is handed on as the value it denotes under any content
\* type.
C8_ParseFailure ==
    /\ \A s \in Unparseable :
          /\ FailedWith(s, NewError("SyntaxError", <<"Unexpected token">>))
          /\ ~DeliveredResult(s)
          /\ calls[s].made = 0
    /\ \A s \in Accepted \ Unparseable :
          (calls[s].transformer = "none" /\ calls[s].cb = "fn")
          => \E v \in JSONValues :
                Stringify(v) = Resp(s).raw /\ calls[s].log = << <<Null, v>> >>

\* A call with a model class as transformer, on a client that transforms, was
\* answered 200 with the body 'Bad Gateway' declared as application/json.
C8_Witness ==
    \E s \in Unparseable :
        /\ Resp(s).raw = <<"Bad Gateway">>
        /\ Resp(s).contentType = "application/json"
        /\ calls[s].transformer = "class"
        /\ this.transform
        /\ calls[s].cb = "fn"

\* The calls whose request was aborted by its signal.
TimedOut == {s \in Made : calls[s].pc = "done" /\ calls[s].resp = <<"aborted">>}

\* The deadline of every request is the client's timeout, and a call whose
\* request was aborted failed with the timeout error and delivered no result.
C9_Deadline ==
    /\ \A s \in Requested :
          /\ "signal" \in DOMAIN Req(s)
          /\ Req(s).signal = this.timeout
          /\ InFlight(s) => calls[s].timer \in 0..this.timeout
    /\ \A s \in TimedOut :
          /\ FailedWith(s, TimeoutError)
          /\ ~DeliveredResult(s)

\* C9: every call that reaches the transport carries the client's timeout as
\* its deadline and completes: when no response arrives in time the request is
\* aborted and the call fails with the timeout error, without a result; no
\* call stays in flight forever.
C9_Completes ==
    /\ []C9_Deadline
    /\ \A s \in Slots : InFlight(s) ~> calls[s].pc = "done"

\* A call of a client constructed with a timeout of 5 was aborted after time
\* had passed, and its callback received the timeout error.
C9_Witness ==
    \E s \in TimedOut :
        /\ this.timeout = 5
        /\ calls[s].cb = "fn"
        /\ calls[s].log = << <<TimeoutError, Undef>> >>

\* The calls that have run to their end.
Finished == {s \in Made : calls[s].pc = "done"}

\* C10: a finished call has delivered exactly one completion on one channel:
\* a callback function was invoked exactly once, with an error or with a
\* result, whatever the transport, the transformer and the callback did; a
\* call without a callback has its promise settled, rejected with the error or
\* resolved with the result, and no callback invocation.
C10_ExactlyOneCompletion ==
    \A s \in Finished :
        IF calls[s].cb \in {"fn", "fnThrows"}
        THEN /\ Len(calls[s].log) = 1
             /\ \/ calls[s].log[1][1] = Null
                \/ calls[s].log[1][1] # Null /\ calls[s].log[1][2] = Undef
        ELSE /\ calls[s].log = <<>>
             /\ calls[s].promise[2] \in {"resolved", "rejected"}

\* The calls that failed with an error to deliver.
Failed == {s \in Finished : DeliveredError(s)}
\* The text holds the help link.
HasHelpLink(text) == \E i \in DOMAIN text : <<text[i]>> = HelpLink

\* C11: a failed call whose error carries the nonce-too-small code, such as a
\* non-success response with the body [type, 10114, detail], has a message
\* that holds the original text and the help link; a failed call with any
\* other code has a message without the help link.
C11_NonceHelpLink ==
    /\ \A s \in Refused :
          ErrorOf(s)[2].code = Num(NonceTooSmall)
          => /\ HasHelpLink(ErrorOf(s)[2].message)
             /\ \E i \in DOMAIN ErrorOf(s)[2].message :
                   SubSeq(ErrorOf(s)[2].message, 1, i)
                      = ApiError(Resp(s), Resp(s).raw)[2].message
    /\ \A s \in Failed :
          ErrorOf(s)[2].code # Num(NonceTooSmall)
          => ~HasHelpLink(ErrorOf(s)[2].message)

\* The calls whose transformer threw on the data of a successful response.
TransformFailed ==
    {s \in Accepted \ Unparseable : this.transform /\ calls[s].transformer = "fnThrows"}
\* The calls whose fetch was rejected by the transport.
Unreachable == {s \in Finished : calls[s].fetches > 0 /\ calls[s].resp = <<"none">>}

\* C12: a call of a request primitive calls the transport at most once, and
\* every failure (non-success status, timeout, rejected fetch, parse failure,
\* transform failure) reaches the caller as that error, with no second
\* attempt and no result in its place.
C12_NoRetryNoSwallow ==
    /\ \A s \in Made : calls[s].fetches <= 1
    /\ \A s \in Refused : FailedWith(s, ApiError(Resp(s), Resp(s).raw))
    /\ \A s \in TimedOut : FailedWith(s, TimeoutError)
    /\ \A s \in Unreachable : FailedWith(s, NewError("TypeError", <<"fetch failed">>))
    /\ \A s \in Unparseable : FailedWith(s, NewError("SyntaxError", <<"Unexpected token">>))
    /\ \A s \in TransformFailed : FailedWith(s, TransformError)
    /\ \A s \in Refused \cup TimedOut \cup Unreachable \cup Unparseable \cup TransformFailed :
          /\ calls[s].fetches = 1
          /\ ~DeliveredResult(s)
          /\ calls[s].promise[2] # "pending"

\* A call without a callback whose transformer threw has finished after one
\* transport call.
C12_Witness ==
    \E s \in TransformFailed :
        /\ calls[s].cb = "none"
        /\ calls[s].fetches = 1
        /\ calls[s].promise = <<"promise", "rejected", TransformError>>

\* The calls whose response was handed to _response, and the data it was
\* handed.
Parsed == Accepted \ Unparseable
Data(s) == JSONParse(Resp(s).raw)[2]
\* The call delivered `v` as its result.
Delivered(s, v) ==
    IF calls[s].cb \in {"fn", "fnThrows"}
    THEN calls[s].log # <<>> /\ calls[s].log[1] = <<Null, v>>
    ELSE calls[s].promise = <<"promise", "resolved", v>>

\* C13: with the transform flag false, or with no transformer, _response
\* delivers the parsed data unchanged, whatever the data; with the flag false
\* no transformer runs.
C13_Untransformed ==
    \A s \in Parsed :
        /\ (~this.transform \/ calls[s].transformer = "none") => Delivered(s, Data(s))
        /\ ~this.transform => calls[s].made = 0

\* A call with a model class as transformer, on a client whose flag is false,
\* was answered with null.
C13_Witness ==
    \E s \in Parsed :
        ~this.transform /\ calls[s].transformer = "class" /\ Data(s) = Null

\* The direct calls of _classTransform and of _doTransform that have returned.
ClassTransformed == {s \in Finished : calls[s].kind = "_classTransform"}
Transformed == {s \in Finished : calls[s].kind \in {"_classTransform", "_doTransform"}}
\* The data a direct call was given and the value it returned.
Input(s) == calls[s].payload
Output(s) == calls[s].ret[2]

\* C14: with the transform flag false, _classTransform(data, M) returns data
\* as it is, whatever the data, and makes no instance of M.
C14_FlagOffAsIs ==
    \A s \in ClassTransformed :
        ~this.transform
        => /\ calls[s].ret = <<"return", Input(s)>>
           /\ calls[s].made = 0

\* The data that is falsy, and the data that is empty or falsy.
FalsyData == {Null, Undef, Num(0), Str(<<>>), Bool(FALSE)}
EmptyData == FalsyData \cup {Arr(<<>>)}

\* C14, amended: with the transform flag false, _classTransform(data, M)
\* returns data as it is for every data that is neither falsy nor an empty
\* array, and an empty array for data that is; it makes no instance of M.
C14_FlagOffAsIsUnlessEmpty ==
    \A s \in ClassTransformed :
        ~this.transform
        => /\ Input(s) \notin EmptyData => calls[s].ret = <<"return", Input(s)>>
           /\ Input(s) \in EmptyData => calls[s].ret = <<"return", Arr(<<>>)>>
           /\ calls[s].made = 0

\* On a client whose flag is false, _classTransform was called with two rows
\* and returned them.
C14_Witness ==
    \E s \in ClassTransformed :
        /\ ~this.transform
        /\ Input(s) = Rows2D
        /\ Output(s) = Rows2D

\* The direct calls whose data was empty or falsy.
GivenEmpty == {s \in Transformed : Input(s) \in EmptyData}

\* C15 as stated: for empty or falsy data the transformation returns an empty
\* sequence, whichever transformer is supplied.
C15_EmptyAlwaysEmpty ==
    \A s \in GivenEmpty : calls[s].ret = <<"return", Arr(<<>>)>>

\* C15, amended: for empty or falsy data the transformation returns an empty
\* sequence when the transformer is a model class, and makes no instance; a
\* transformer function is called with the data and what it returns or throws
\* is the outcome; with no transformer the data is returned unchanged.
C15_EmptyByTransformer ==
    \A s \in GivenEmpty :
        /\ calls[s].transformer = "class"
              => calls[s].ret = <<"return", Arr(<<>>)>> /\ calls[s].made = 0
        /\ calls[s].transformer = "fn" => calls[s].ret = <<"return", Mapped(Input(s))>>
        /\ calls[s].transformer = "fnThrows" => calls[s].ret = <<"throw", TransformError>>
        /\ calls[s].transformer = "none" => calls[s].ret = <<"return", Input(s)>>

\* On a client whose flag is true, _doTransform was called with null and a
\* model class, and returned an empty array.
C15_Witness ==
    \E s \in GivenEmpty :
        /\ this.transform
        /\ calls[s].kind = "_doTransform"
        /\ calls[s].transformer = "class"
        /\ Input(s) = Null
        /\ Output(s) = Arr(<<>>)

\* The direct calls with a model class, on a client whose flag is true, whose
\* data was neither empty nor falsy.
Modelled ==
    {s \in Transformed :
        this.transform /\ calls[s].transformer = "class" /\ Input(s) \notin EmptyData}
\* The data is an array and each of its elements is an array.
ArrayOfArrays(data) == IsArray(data) /\ \A i \in DOMAIN data[2] : IsArray(data[2][i])
\* The output is a sequence as long as the data, whose i-th element is a model
\* made from the data's i-th element.
ModelPerElement(s) ==
    /\ IsArray(Output(s))
    /\ Len(Output(s)[2]) = Len(Input(s)[2])
    /\ \A i \in DOMAIN Input(s)[2] : Output(s)[2][i] = <<"model", Input(s)[2][i]>>
    /\ calls[s].made = Len(Input(s)[2])
\* The output is one model made from the whole data.
OneModel(s) == Output(s) = <<"model", Input(s)>> /\ calls[s].made = 1

\* C16 as stated: with the flag on and a model class, data that is an array of
\* arrays gives one model per row, in order, and any other data that is not
\* empty gives a single model of the whole data.
C16_RowsOrWhole ==
    \A s \in Modelled :
        /\ calls[s].ret[1] = "return"
        /\ IF ArrayOfArrays(Input(s)) THEN ModelPerElement(s) ELSE OneModel(s)

\* C16, amended: with the flag on and a model class, data that is an array
\* whose first element is an array gives one model per element, in order, and
\* any other data that is not empty gives a single model of the whole data.
C16_FirstRowDecides ==
    \A s \in Modelled :
        /\ calls[s].ret[1] = "return"
        /\ IF IsArray(Input(s)) /\ IsArray(Input(s)[2][1])
           THEN ModelPerElement(s)
           ELSE OneModel(s)

\* _classTransform was called with [[1],2] and returned two models, of [1]
\* and of 2.
C16_Witness ==
    \E s \in Modelled :
        /\ calls[s].kind = "_classTransform"
        /\ Input(s) = MixedRows
        /\ Output(s) = Arr(<< <<"model", Arr(<<Num(1)>>)>>, <<"model", Num(2)>> >>)

\* C17: when the transformer throws on the data of a successful response, the
\* call fails with the error thrown and delivers no result, neither the data
\* nor a transformed value.
C17_TransformThrows ==
    \A s \in TransformFailed :
        /\ FailedWith(s, TransformError)
        /\ ~DeliveredResult(s)
        /\ calls[s].cb = "fn" => calls[s].log = << <<TransformError, Undef>> >>
        /\ calls[s].cb = "none" => calls[s].log = <<>>

\* A call with a callback whose transformer threw on rows has finished.
C17_Witness ==
    \E s \in TransformFailed :
        /\ calls[s].cb = "fn"
        /\ Data(s) = Rows2D
        /\ calls[s].made = 1

\* Calls of _genCurrencyList that returned, given a configuration of six parts.
Merged ==
    {s \in Finished : /\ calls[s].kind = "_genCurrencyList"
                      /\ IsArray(Input(s))
                      /\ Len(Input(s)[2]) = 6}
\* The n-th part of the configuration a call was given.
Part(s, n) == Input(s)[2][n][2]
\* The entry a configuration map has for a key, if it has one.
Has(part, key) == \E i \in DOMAIN part : IsArray(part[i]) /\ part[i][2][1] = Str(key)
Of(part, key) ==
    part[CHOOSE i \in DOMAIN part : IsArray(part[i]) /\ part[i][2][1] = Str(key)][2][2]
\* The record a call emitted for a key, if it emitted one.
Emitted(s, key) == \E i \in DOMAIN Output(s)[2] : Output(s)[2][i][2][1] = Str(key)
Record(s, key) ==
    Output(s)[2][CHOOSE i \in DOMAIN Output(s)[2] : Output(s)[2][i][2][1] = Str(key)][2]
CurrencyKeys == {<<"USDT">>, <<"ETH">>, <<"BTC">>}

\* C18: in the currency merge, a key K of the pool map with no explorer entry
\* of its own whose pool-mate P = pool[K] has one is emitted with P's explorer
\* list, and a key with an explorer entry of its own is emitted with its own.
C18_ExplorerInherited ==
    \A s \in Merged : \A K \in CurrencyKeys :
        Emitted(s, K) =>
            /\ Has(Part(s, 5), K) => Record(s, K)[4] = Of(Part(s, 5), K)
            /\ \A P \in CurrencyKeys :
                  ( /\ Has(Part(s, 4), K)
                    /\ Of(Part(s, 4), K) = Str(P)
                    /\ ~Has(Part(s, 5), K)
                    /\ Has(Part(s, 5), P) )
                  => Record(s, K)[4] = Of(Part(s, 5), P)
\* USDT is in the ETH pool, only ETH has an explorer, and the record of USDT
\* carries it.
C18_Witness ==
    \E s \in Merged :
        /\ Part(s, 1) = <<Code("USDT")>>
        /\ Part(s, 4) = <<Pair("USDT", Code("ETH"))>>
        /\ Part(s, 5) = <<Pair("ETH", Urls("etherscan.io"))>>
        /\ Record(s, <<"USDT">>)[4] = Urls("etherscan.io")

\* C19: the inheritance is one non-transitive pass: a key K whose pool-mate P
\* has no explorer entry of its own in the input is emitted with the empty
\* explorer list, even if P is in a pool that has one, in any order of the
\* pool map.
C19_NotTransitive ==
    \A s \in Merged : \A K \in CurrencyKeys, P \in CurrencyKeys :
        ( /\ Emitted(s, K)
          /\ Has(Part(s, 4), K)
          /\ Of(Part(s, 4), K) = Str(P)
          /\ ~Has(Part(s, 5), K)
          /\ ~Has(Part(s, 5), P) )
        => Record(s, K)[4] = Arr(<<>>)

RECURSIVE Firsts(_)
\* The elements of a sequence in order of first occurrence.
Firsts(seq) ==
    IF seq = <<>> THEN <<>>
    ELSE LET Add(front, e) ==
                 IF \E i \in DOMAIN front : front[i] = e THEN front ELSE Append(front, e)
         IN Add(Firsts(SubSeq(seq, 1, Len(seq) - 1)), seq[Len(seq)])
\* The keys of a part of a configuration, in order.
KeysOf(part) ==
    [i \in DOMAIN part |-> IF IsArray(part[i]) THEN part[i][2][1][2] ELSE part[i][2]]
\* The keys of the listed currencies, then of the symbols, then of the labels.
UnionKeys(s) == Firsts(KeysOf(Part(s, 1)) \o KeysOf(Part(s, 2)) \o KeysOf(Part(s, 3)))
\* The label of a key if it has one, else its symbol, else its listed code.
DisplayName(s, key) ==
    IF Has(Part(s, 3), key) THEN Of(Part(s, 3), key)
    ELSE IF Has(Part(s, 2), key) THEN Of(Part(s, 2), key)
    ELSE Str(key)
\* The explorer lists of the configuration a call was given.
ExplorerLists(s) == {Part(s, 5)[i][2][2] : i \in DOMAIN Part(s, 5)}

PassedThrough ==
    {s \in Finished : /\ calls[s].kind = "_genCurrencyList"
                      /\ ~(IsArray(Input(s)) /\ Len(Input(s)[2]) = 6)}

\* C21: given data that is not an array of exactly 6 elements (no array, or
\* an array of another length, the empty one included), the currency merge
\* returns the data unchanged.
C21_PassThrough ==
    \A s \in PassedThrough : Output(s) = Input(s)
\* The merge has returned an array of seven parts as it was given.
C21_Witness ==
    \E s \in PassedThrough :
        /\ IsArray(Input(s))
        /\ Len(Input(s)[2]) = 7
        /\ Output(s) = Input(s)

\* C22: a timeout that is no positive integer (a fraction, zero, a negative
\* integer, no number) makes the constructor throw, so a client that exists
\* has the default timeout or the positive integer it was given.
C22_PositiveTimeout ==
    Constructed => this.timeout > 0

\* C23: a public GET whose completion handler is neither null, undefined nor
\* a function fails with the error that names the bad argument, and fetch is
\* never invoked for it.
C23_HandlerValidated ==
    \A s \in Made :
        (calls[s].kind = "get" /\ calls[s].cb = "notFn")
        => /\ calls[s].pc = "done"
           /\ calls[s].fetches = 0
           /\ calls[s].req = <<"none">>
           /\ calls[s].log = <<>>
           /\ calls[s].promise
                = <<"promise", "rejected",
                    NewError("Error", <<"_makePublicRequest cb param must be a function">>)>>
\* A public GET was called with a handler that is no function, on a client
\* whose timeout would let a request through.
C23_Witness ==
    \E s \in Made :
        /\ calls[s].kind = "get"
        /\ calls[s].cb = "notFn"
        /\ this.timeout > 0
        /\ calls[s].pc = "done"

\* The requests of the public primitives.
PublicGets == {s \in Requested : calls[s].kind = "get"}
PublicPosts == {s \in Requested : calls[s].kind = "post"}

\* C24: a public request carries no identity. A public GET is the method, the
\* URL of the path and the timeout signal, without headers or body; a public
\* POST adds the content type and the JSON body of the payload. Neither has an
\* API key, signature, nonce or token header, and each is determined by the
\* path, the payload and the timeout, so clients that differ in their
\* credentials only emit the same public request.
C24_PublicAnonymous ==
    /\ \A s \in PublicGets :
          Req(s) = [url |-> API_URL \o <<"/v2">> \o calls[s].path,
                    method |-> "GET",
                    signal |-> this.timeout]
    /\ \A s \in PublicPosts :
          /\ DOMAIN Req(s).headers \cap (KeyHeaderSet \cup TokenHeaderSet) = {}
          /\ Req(s) = [url |-> API_URL \o <<"/v2">> \o calls[s].path,
                       method |-> "POST",
                       signal |-> this.timeout,
                       headers |-> [h \in {"content-type"} |-> <<"application/json">>],
                       body |-> Req(s).body]
          /\ \E parsed \in {JSONParse(Req(s).body)} :
                /\ parsed[1] = "ok"
                /\ \A k \in Keys(parsed[2]) :
                      /\ k \in Keys(calls[s].payload)
                      /\ Field(parsed[2], k) = Field(calls[s].payload, k)
\* A client that has a key, a secret and a token has sent a public POST.
C24_Witness ==
    /\ Constructed
    /\ this.apiKey = "key" /\ this.apiSecret = "secret" /\ this.authToken = "token"
    /\ \E s \in PublicPosts : Keys(calls[s].payload) # {}

\* The calls of the validating endpoints whose params do not pass: orders, ids
\* or ops that is no array, or a scope that is missing or empty.
Invalid ==
    {s \in Made :
        \/ /\ calls[s].kind \in {"submitOrderMulti", "updateOrderMulti"}
           /\ ~(HasProp(calls[s].params, "orders")
                /\ IsArray(GetProp(calls[s].params, "orders")))
        \/ /\ calls[s].kind = "cancelOrders"
           /\ ~(HasProp(calls[s].params, "ids") /\ IsArray(GetProp(calls[s].params, "ids")))
        \/ /\ calls[s].kind = "orderMultiOp"
           /\ ~(HasProp(calls[s].params, "ops") /\ IsArray(GetProp(calls[s].params, "ops")))
        \/ /\ calls[s].kind = "generateToken"
           /\ ~(HasProp(calls[s].params, "scope")
                /\ GetProp(calls[s].params, "scope") \notin {Null, Undef, Str(<<>>)})}
\* The message of an endpoint's validation error.
ValidationMessage(s) ==
    CASE calls[s].kind \in {"submitOrderMulti", "updateOrderMulti"} ->
            <<"orders should be an array">>
      [] calls[s].kind = "cancelOrders" -> <<"ids should be an array">>
      [] calls[s].kind = "orderMultiOp" -> <<"ops should be an array">>
      [] calls[s].kind = "generateToken" -> <<"scope param is required">>

\* C25: submitOrderMulti or updateOrderMulti with orders that is no array,
\* cancelOrders with ids that is no array, orderMultiOp with ops that is no
\* array and generateToken without a scope fail with their validation error,
\* on a client without credentials too, and fetch is never invoked for them.
C25_ValidationFirst ==
    \A s \in Invalid :
        /\ calls[s].pc = "done"
        /\ calls[s].fetches = 0
        /\ calls[s].req = <<"none">>
        /\ FailedWith(s, NewError("Error", ValidationMessage(s)))
        /\ ~DeliveredResult(s)
\* cancelOrders was called with ids that is a number, without a callback, on
\* a client that has no credentials.
C25_Witness ==
    /\ Constructed
    /\ this.apiKey = ""
    /\ \E s \in Invalid :
          /\ calls[s].kind = "cancelOrders"
          /\ calls[s].cb = "none"
          /\ calls[s].promise[2] = "rejected"

\* The key-signed requests the server has answered, and the nonce of one.
Served == {s \in KeySigned : calls[s].resp[1] = "response"}
NonceOf(s) == HeaderNonce(Req(s).headers["bfx-nonce"])
\* Those the server received after a request with a higher nonce.
Overtaken ==
    {s \in Served : \E i, j \in DOMAIN received :
                        i < j /\ received[j] = NonceOf(s) /\ received[i] > NonceOf(s)}

\* C27: the dispatcher does not serialize authenticated calls: two can be in
\* flight at once, the server can then receive the higher nonce first, and the
\* request with the lower nonce is rejected as nonce too small: its call fails
\* with the error of code 10114 and delivers no result.
C27_OvertakenRejected ==
    \A s \in Overtaken :
        /\ Resp(s) = ServerRejects
        /\ s \in Answered
           => /\ FailedWith(s, ApiError(Resp(s), Resp(s).raw))
              /\ ErrorOf(s)[2].code = Num(NonceTooSmall)
              /\ ~DeliveredResult(s)
\* Two authenticated calls were in flight, the server received the second
\* one's request first, and the first call has failed with code 10114.
C27_Witness ==
    /\ Len(sent) = 2
    /\ Len(received) = 2
    /\ received[1] > received[2]
    /\ \E s \in Overtaken :
          /\ s \in Answered
          /\ NonceOf(s) = HeaderNonce(sent[1])
          /\ ErrorOf(s)[2].code = Num(NonceTooSmall)

\* C28: when the caller makes each authenticated call only after the one
\* before has completed, the server receives the requests in strictly
\* increasing order of nonce and rejects none of them for its nonce.
C28_SerialInOrder ==
    env = "serial"
    => /\ \A i, j \in DOMAIN received : i < j => received[i] < received[j]
       /\ \A s \in Served : Resp(s) = ServerAccepts
       /\ Overtaken = {}
\* The server has received the requests of two calls made one after the other.
C28_Witness ==
    /\ env = "serial"
    /\ Len(received) = 2
    /\ Served # {}

\* C29: of two authenticated calls the earlier one has the smaller nonce and
\* the earlier transport call, whether or not it has completed: the step that
\* draws a nonce is the step that hands the request carrying it to the
\* transport, so no other nonce is drawn in between.
C29_NonceStepSends ==
    [][ last' # last
        => /\ last' > last
           /\ sent' = Append(sent, NumText(last'))
           /\ \A i \in DOMAIN sent : HeaderNonce(sent[i]) < last'
           /\ \E s \in Slots :
                 /\ calls[s].pc = "idle"
                 /\ calls'[s].pc = "fetching"
                 /\ calls'[s].fetches = 1
                 /\ calls'[s].req[2].headers["bfx-nonce"] = NumText(last') ]_vars
\* The second of two calls was made while the first was still in flight.
C29_Witness ==
    /\ Len(sent) = 2
    /\ HeaderNonce(sent[1]) < HeaderNonce(sent[2])
    /\ \E s, r \in Requested :
          /\ s # r
          /\ calls[s].pc = "fetching"
          /\ calls[r].pc = "fetching"

\* The finished calls of the RESTv1 primitives, and those the API answered.
FinishedV1 == {s \in Finished : calls[s].kind \in {"make_request", "make_public_request"}}
AnsweredV1 == {s \in FinishedV1 : calls[s].resp[1] = "response"}
\* Answered with a status that is neither a success code nor 400.
RefusedV1 == {s \in AnsweredV1 : Resp(s).status \notin (200..299) \cup {400}}
\* Answered with a JSON body that is an object with a string message.
HasMessage(s) ==
    \E parsed \in {JSONParse(Resp(s).raw)} :
        /\ parsed[1] = "ok"
        /\ Tag(parsed[2]) = "obj"
        /\ "message" \in Keys(parsed[2])
        /\ Tag(Field(parsed[2], "message")) = "str"
MessageOf(s) == Field(JSONParse(Resp(s).raw)[2], "message")[2]
\* The messages that match 'nonce is too small' in some case of the letters.
NonceMessages ==
    {<<"Nonce is too small">>, <<"nonce is too small">>,
     <<"Error: ", "NONCE IS TOO SMALL", ".">>}
\* The calls that failed: refused, answered with a message or with a body
\* that is no JSON, not answered, or never sent.
FailedV1 ==
    {s \in FinishedV1 :
        \/ calls[s].resp[1] # "response"
        \/ s \in RefusedV1
        \/ JSONParse(Resp(s).raw)[1] = "throw"
        \/ HasMessage(s)}

\* C26: make_request and make_public_request of RESTv1 hand the callback the
\* error 'HTTP code <status> <statusText>' for a status that is neither a
\* success code nor 400; for any other status the JSON body is parsed, and a
\* string message in it makes the error, with exactly that message, extended by
\* the help link if and only if it matches 'nonce is too small' in any case of
\* the letters; and a call that fails hands the callback an error and no data.
C26_V1Responses ==
    /\ \A s \in RefusedV1 :
          calls[s].log[1]
             = <<NewError("Error", <<"HTTP code ">> \o NumText(Resp(s).status) \o <<" ">>
                                     \o Resp(s).statusText), Undef>>
    /\ \A s \in AnsweredV1 \ RefusedV1 :
          HasMessage(s)
          => calls[s].log[1]
                = <<NewError("Error", IF MessageOf(s) \in NonceMessages
                                      THEN MessageOf(s) \o HelpLinkV1
                                      ELSE MessageOf(s)), Undef>>
    /\ \A s \in FailedV1 :
          /\ calls[s].log # <<>>
          /\ calls[s].log[1][1] # Null
          /\ ResultCalls(s) = {}
\* make_request was answered 400 with the message 'Nonce is too small', and
\* its callback received that message with the help link.
C26_Witness ==
    \E s \in AnsweredV1 :
        /\ calls[s].kind = "make_request"
        /\ Resp(s).status = 400
        /\ HasMessage(s)
        /\ MessageOf(s) = <<"Nonce is too small">>
        /\ calls[s].log = << <<NewError("Error", <<"Nonce is too small">> \o HelpLinkV1),
                               Undef>> >>

\* The call's request is an order submission.
OrderSubmitRequest(call) ==
    /\ call.req[1] = "request"
    /\ call.req[2].url = this.url \o <<"/v2", "/auth/w/order/submit">>
\* The API answered the call's request with a list of positions.
PositionsFetched(call) ==
    /\ call.resp[1] = "response"
    /\ call.resp[2].ok
    /\ JSONParse(call.resp[2].raw)[1] = "ok"
    /\ IsArray(JSONParse(call.resp[2].raw)[2])
\* The rows of that list that have the id closePosition was called with and
\* the status ACTIVE.
ActiveRows(call) ==
    {row \in {JSONParse(call.resp[2].raw)[2][2][i] :
                 i \in DOMAIN JSONParse(call.resp[2].raw)[2][2]} :
        /\ row[2][12] = call.params[1]
        /\ row[2][2] = Str(<<"ACTIVE">>)}
\* The body of a market order for a symbol and an amount.
MarketOrderBody(symbol, amount) ==
    Stringify(Obj(<< <<"type", Str(<<"MARKET">>)>>, <<"symbol", symbol>>,
                     <<"amount", Str(NumText(amount))>>, <<"flags", Num(512)>> >>))
\* closePosition has failed with an error that is `err`, whatever its message
\* was extended by: its callback received it and no data, or its promise was
\* rejected with it.
ClosePositionFailed(call, err) ==
    \E e \in {IF call.params[2] = "fn" /\ call.log # <<>> THEN call.log[1][1]
              ELSE call.promise[3]} :
        /\ call.pc = "done"
        /\ call.kind = "closePosition"
        /\ IF call.params[2] = "fn"
           THEN call.log = << <<e, Undef>> >>
           ELSE call.log = <<>> /\ call.promise[2] = "rejected"
        /\ e[1] = "error"
        /\ [e EXCEPT ![2].message = <<>>] = [err EXCEPT ![2].message = <<>>]
        /\ Len(e[2].message) >= Len(err[2].message)
        /\ SubSeq(e[2].message, 1, Len(err[2].message)) = err[2].message

\* C30: closePosition fetches the positions first and submits an order only in
\* a step that finds that fetch succeeded with a position of the given id and
\* status ACTIVE in its answer; the order is a market order on that
\* position's symbol with the negated amount of the position. When the fetch
\* has failed or the answer has no such position, closePosition fails with the
\* fetch error or with 'position not found', and its next step sends no
\* request.
C30_CloseInTwoSteps ==
    [][\A s \in Slots :
          /\ (OrderSubmitRequest(calls'[s]) /\ calls'[s].fetches # calls[s].fetches)
             => /\ calls[s].kind = "positions"
                /\ calls[s].fetches = 1
                /\ calls'[s].fetches = 2
                /\ PositionsFetched(calls[s])
                /\ \E row \in ActiveRows(calls[s]) :
                      calls'[s].req[2].body = MarketOrderBody(row[2][1], 0 - row[2][3][2])
          /\ (/\ calls[s].kind = "positions"
              /\ calls[s].pc = "done"
              /\ calls'[s] # calls[s])
             => IF ~PositionsFetched(calls[s])
                THEN /\ calls'[s].req = calls[s].req
                     /\ calls'[s].fetches = calls[s].fetches
                     /\ calls[s].promise[2] = "rejected"
                     /\ ClosePositionFailed(calls'[s], calls[s].promise[3])
                ELSE IF ActiveRows(calls[s]) = {}
                THEN /\ calls'[s].req = calls[s].req
                     /\ calls'[s].fetches = calls[s].fetches
                     /\ ClosePositionFailed(calls'[s],
                                            NewError("Error", <<"position not found">>))
                ELSE OrderSubmitRequest(calls'[s])
      ]_vars
\* closePosition was called for position 2, the API answered with a closed and
\* an active position of that id, and the order for the active one was sent
\* and accepted: closePosition has delivered the order.
C30_Witness ==
    \E s \in Slots :
        /\ calls[s].kind = "closePosition"
        /\ calls[s].pc = "done"
        /\ calls[s].params[1] = Num(2)
        /\ calls[s].fetches = 2
        /\ OrderSubmitRequest(calls[s])
        /\ calls[s].req[2].body = MarketOrderBody(Str(<<"tETHUSD">>), 1)
        /\ calls[s].resp[1] = "response"
        /\ calls[s].resp[2].ok
        /\ \/ calls[s].promise[2] = "resolved"
           \/ ResultCalls(s) # {}

====
